---- MODULE Spec2Model ----
(***************************************************************************)
(* The Lucky Triple game server: session state machine, timeout handling   *)
(* and the reward-payout ledger, in its two variants:                      *)
(*   "gameId"   - src/theluckytriple-server.js, sessions keyed by gameId   *)
(*                (luckyTripleGames) with the activePlayers set;           *)
(*   "playerId" - src/unnamed/part_000, sessions keyed by playerId         *)
(*                (playerGameSessions).                                    *)
(* Node.js runs every request handler, timer callback and promise          *)
(* continuation to completion on one thread, so each of them is one        *)
(* action; an await on network I/O ends the action and its continuation is *)
(* another action.                                                         *)
(*                                                                         *)
(* Abstractions:                                                           *)
(*  - a gameId (`${Date.now()}-${random}`) is a fresh number;               *)
(*  - the ledger key `${receiverAddress}-${gameId}` is the pair of the two; *)
(*  - a card is its suit and rank (the constant field hidden is left out); *)
(*  - the timestamp of a completedGames record and the message of a        *)
(*    response are left out;                                               *)
(*  - the gameId variant's sessions have no lastActionTime: there the      *)
(*    field keeps the start time and nothing reads it;                     *)
(*  - Math.random is one of NumSeeds fixed streams (RandomIndex);          *)
(*  - the clock moves from one instant at which something is due to the    *)
(*    next, and requests arrive at these instants;                         *)
(*  - the passes with periods of 24 hours and more                         *)
(*    (cleanupOldCompletedGames, cleanupOldPaidRewards) lie beyond         *)
(*    MaxSeconds and are not modelled.                                     *)
(***************************************************************************)
EXTENDS Integers, Sequences, FiniteSets, Bags, TLC

VARIABLES
    variant,            \* which server is running: "gameId" or "playerId"
    now,                \* Date.now(), in milliseconds since the model's origin
    nextGameId,         \* the next fresh game id (ids are unique per process)
    gameStates,         \* the gameState objects still referenced, by gameId
    luckyTripleGames,   \* gameId variant: the resident gameIds (Map keys)
    playerGameSessions, \* playerId variant: playerId -> resident gameId or NoGame
    activePlayers,      \* gameId variant: Set of playerIds
    completedGames,     \* Map gameId -> [playerId, result, processed]
    paidRewards,        \* Map <<playerId, gameId>> -> "pending"|"completed"|"failed"
    rewardCalls,        \* sendCardsReward invocations suspended at an await
    gatewayLog,         \* every sendRawTransaction issued: <<playerId, gameId, amount>>
    timers,             \* pending setTimeout callbacks
    nextCleanup,        \* due time of the next periodic pass over the sessions
                        \* (cleanupTimedOutGames, cleanupInactiveGameSessions)
    response,           \* what the last handler answered (NoResponse otherwise)
    requests            \* the number of HTTP requests handled so far

vars == <<variant, now, nextGameId, gameStates, luckyTripleGames, playerGameSessions,
          activePlayers, completedGames, paidRewards, rewardCalls, gatewayLog,
          timers, nextCleanup, response, requests>>

----------------------------------------------------------------------------
(* Bounds of the model *)

\* number of games created in one behaviour
MaxGames == 3
\* number of Math.random streams a shuffle may consume
NumSeeds == 2
\* Math.random streams given to the shuffle where the deck itself is examined
NumDeckSeeds == 120
\* number of HTTP requests in one behaviour
MaxRequests == 5
\* the clock stops MaxSeconds after the model's origin
MaxSeconds == 5400

\* the players whose start and reset requests are enumerated
Players == {"p1"}
\* a player who has a game of their own from the outset and never starts another
Bystanders == {"p2"}
MaxNow == MaxSeconds * 1000
\* the cardIndexes arrays a hold request may carry (positions are 0-based)
CardIndexInputs == {<<0, 1>>, <<3, 3>>, <<0, 1, 2>>}
\* the entryFeePaid values a start or reset request may carry
EntryFeeInputs == {TRUE}

NoGame == 0
GameIds == 1..MaxGames

----------------------------------------------------------------------------
(* Configuration *)

MAX_ROUNDS == 3
GAME_TIMEOUT_MS == 60 * 1000
CLEANUP_INTERVAL_MS == 20 * 1000
ACTIVE_PLAYER_DELAY_MS == 5000
GAME_DELETE_DELAY_MS == 10000
\* playerId variant: cleanupInactiveGameSessions and its setInterval
INACTIVE_SESSION_MS == 60 * 60 * 1000
INACTIVE_CLEANUP_INTERVAL_MS == 30 * 60 * 1000

Suits == <<"hearts", "diamonds", "clubs", "spades">>

RankOf(value) == IF value = 1 THEN "A" ELSE ToString(value)

RANK_ORDER(rank) ==
    CASE rank = "A" -> 1
      [] rank = "2" -> 2
      [] rank = "3" -> 3
      [] rank = "4" -> 4
      [] rank = "5" -> 5
      [] rank = "6" -> 6

REWARDS(combination) ==
    CASE combination = "Lucky Triple" -> 15
      [] combination = "Triple" -> 9
      [] combination = "Straight Flush" -> 12
      [] combination = "Straight" -> 6
      [] combination = "Flush" -> 5
      [] combination = "None" -> 0

----------------------------------------------------------------------------
(* Deck *)

\* the deck before the shuffle: for each suit, the values 1..6
OrderedDeck ==
    [k \in 1..24 |-> [suit |-> Suits[((k - 1) \div 6) + 1],
                      rank |-> RankOf(((k - 1) % 6) + 1)]]

\* Math.floor(Math.random() * (i + 1)) of the stream `seed`: a value in 0..i
RandomIndex(seed, i) == (seed * i) % (i + 1)

\* an exchange that only copies deck[j] into deck[i]
SwapCopyingOneWay(deck, i, j) ==
    [deck EXCEPT ![i + 1] = deck[j + 1]]

Swap(deck, i, j) ==
    [deck EXCEPT ![i + 1] = deck[j + 1], ![j + 1] = deck[i + 1]]

RECURSIVE FisherYates(_, _, _)
FisherYates(deck, seed, i) ==
    IF i > 0
    THEN FisherYates(Swap(deck, i, RandomIndex(seed, i)), seed, i - 1)
    ELSE deck

\* a deck of 24 copies of one card
createDeckOfOneCard(seed) ==
    [k \in 1..Len(OrderedDeck) |-> OrderedDeck[1]]

createAndShuffleLuckyTripleDeck(seed) ==
    FisherYates(OrderedDeck, seed, Len(OrderedDeck) - 1)

----------------------------------------------------------------------------
(* Hand evaluation *)

\* Array.prototype.sort with the RANK_ORDER comparator: a stable sort
RECURSIVE InsertByRank(_, _)
InsertByRank(sorted, card) ==
    IF sorted = <<>> THEN <<card>>
    ELSE IF RANK_ORDER(card.rank) - RANK_ORDER(Head(sorted).rank) < 0
         THEN <<card>> \o sorted
         ELSE <<Head(sorted)>> \o InsertByRank(Tail(sorted), card)

RECURSIVE SortByRank(_)
SortByRank(cards) ==
    IF cards = <<>> THEN <<>>
    ELSE InsertByRank(SortByRank(SubSeq(cards, 1, Len(cards) - 1)), cards[Len(cards)])

IsStraight(sortedCards) ==
    \A index \in 1..Len(sortedCards) :
        \/ index = 1
        \/ RANK_ORDER(sortedCards[index].rank)
             - RANK_ORDER(sortedCards[index - 1].rank) = 1

Result(combination) == [combination |-> combination, reward |-> REWARDS(combination)]

\* the evaluation that tests for a straight without sorting the cards
evaluateHandCombinationUnsorted(cards) ==
    IF Len(cards) # 3 THEN [combination |-> "None", reward |-> 0]
    ELSE LET sameSuit == \A k \in 1..Len(cards) : cards[k].suit = cards[1].suit
             sameRank == \A k \in 1..Len(cards) : cards[k].rank = cards[1].rank
         IN  IF sameRank /\ sameSuit THEN Result("Lucky Triple")
             ELSE IF sameRank THEN Result("Triple")
             ELSE LET isStraight == IsStraight(cards)
                  IN  IF isStraight /\ sameSuit THEN Result("Straight Flush")
                      ELSE IF isStraight THEN Result("Straight")
                      ELSE IF sameSuit THEN Result("Flush")
                      ELSE Result("None")

\* a straight test that also takes 5-6-A and 6-A-2 for consecutive
IsStraightWrapAround(sortedCards) ==
    \/ IsStraight(sortedCards)
    \/ /\ Len(sortedCards) = 3
       /\ <<RANK_ORDER(sortedCards[1].rank), RANK_ORDER(sortedCards[2].rank),
            RANK_ORDER(sortedCards[3].rank)>> \in {<<1, 5, 6>>, <<1, 2, 6>>}

\* the evaluation in which the ace is also high
evaluateHandCombinationWrapAround(cards) ==
    IF Len(cards) # 3 THEN [combination |-> "None", reward |-> 0]
    ELSE LET sameSuit == \A k \in 1..Len(cards) : cards[k].suit = cards[1].suit
             sameRank == \A k \in 1..Len(cards) : cards[k].rank = cards[1].rank
         IN  IF sameRank /\ sameSuit THEN Result("Lucky Triple")
             ELSE IF sameRank THEN Result("Triple")
             ELSE LET isStraight == IsStraightWrapAround(SortByRank(cards))
                  IN  IF isStraight /\ sameSuit THEN Result("Straight Flush")
                      ELSE IF isStraight THEN Result("Straight")
                      ELSE IF sameSuit THEN Result("Flush")
                      ELSE Result("None")

evaluateHandCombination(cards) ==
    IF Len(cards) # 3 THEN [combination |-> "None", reward |-> 0]
    ELSE LET sameSuit == \A k \in 1..Len(cards) : cards[k].suit = cards[1].suit
             sameRank == \A k \in 1..Len(cards) : cards[k].rank = cards[1].rank
         IN  IF sameRank /\ sameSuit THEN Result("Lucky Triple")
             ELSE IF sameRank THEN Result("Triple")
             ELSE LET isStraight == IsStraight(SortByRank(cards))
                  IN  IF isStraight /\ sameSuit THEN Result("Straight Flush")
                      ELSE IF isStraight THEN Result("Straight")
                      ELSE IF sameSuit THEN Result("Flush")
                      ELSE Result("None")

----------------------------------------------------------------------------
(* JavaScript Map, timers and responses *)

EmptyMap == [k \in {} |-> k]
MapSet(m, k, v) == (k :> v) @@ m
MapDelete(m, k) == [x \in (DOMAIN m) \ {k} |-> m[x]]

NoPlayer == "-"

\* setTimeout(() => activePlayers.delete(playerId), delay) and its like
PlayerTimer(action, playerId, delay) ==
    [due |-> now + delay, action |-> action, playerId |-> playerId, gameId |-> NoGame]
GameTimer(action, gameId, delay) ==
    [due |-> now + delay, action |-> action, playerId |-> NoPlayer, gameId |-> gameId]

NoBody == [none |-> TRUE]
\* gameId is the game the request names (the one it creates, for start and reset)
NoResponse ==
    [op |-> "none", gameId |-> NoGame, status |-> 0, error |-> "", body |-> NoBody]
Answer(op, gameId, status, error, body) ==
    [op |-> op, gameId |-> gameId, status |-> status, error |-> error, body |-> body]

\* a property read in a condition: a property the object lacks is undefined, falsy
Truthy(object, field) == field \in DOMAIN object /\ object[field]

Includes(array, x) == \E k \in 1..Len(array) : array[k] = x

Ceil(n, d) == (n + d - 1) \div d
Max(a, b) == IF a >= b THEN a ELSE b

\* the gameId variant's resident sessions are the keys of luckyTripleGames, the
\* playerId variant's the values of playerGameSessions
Resident(ltg, pgs) == ltg \cup ({pgs[p] : p \in DOMAIN pgs} \ {NoGame})

\* a gameState object lives while the registry or a suspended reward call holds it
Referenced(gs, ltg, pgs, calls) ==
    LET held == Resident(ltg, pgs) \cup {c.gameId : c \in BagToSet(calls)}
    IN  [g \in (DOMAIN gs) \cap held |-> gs[g]]

\* the session the playerId variant's handlers find by scanning for state.gameId
FindPlayer(gameId) ==
    IF \E p \in DOMAIN playerGameSessions : playerGameSessions[p] = gameId
    THEN CHOOSE p \in DOMAIN playerGameSessions : playerGameSessions[p] = gameId
    ELSE NoPlayer

----------------------------------------------------------------------------
(* Session construction *)

\* a new session whose round counter starts at the maximum
NewGameStateRoundsUsedUp(gameId, playerId, deck, startTime) ==
    [gameId |-> gameId, playerId |-> playerId, deck |-> deck, cards |-> <<>>,
     heldCards |-> <<>>, timestamp |-> startTime, lastActionTime |-> startTime,
     currentCombination |-> "None", currentReward |-> 0, roundsPlayed |-> MAX_ROUNDS,
     maxRounds |-> MAX_ROUNDS, isEnded |-> FALSE, timedOut |-> FALSE,
     rewardPaid |-> FALSE]

NewGameState(gameId, playerId, deck, startTime) ==
    [gameId |-> gameId, playerId |-> playerId, deck |-> deck, cards |-> <<>>,
     heldCards |-> <<>>, timestamp |-> startTime, lastActionTime |-> startTime,
     currentCombination |-> "None", currentReward |-> 0, roundsPlayed |-> 0,
     maxRounds |-> MAX_ROUNDS, isEnded |-> FALSE, timedOut |-> FALSE,
     rewardPaid |-> FALSE]

StartBody(gameId, playerId) ==
    [gameId |-> gameId, playerId |-> playerId, cards |-> <<>>, combination |-> "None",
     reward |-> 0, roundsLeft |-> MAX_ROUNDS, isEnded |-> FALSE,
     timeRemaining |-> Ceil(GAME_TIMEOUT_MS, 1000), maxRounds |-> MAX_ROUNDS]

Init ==
    /\ variant \in {"gameId", "playerId"}
    /\ now = 0
    /\ nextGameId = 1
    /\ gameStates = EmptyMap
    /\ luckyTripleGames = {}
    /\ playerGameSessions = [p \in Players |-> NoGame]
    /\ activePlayers = {}
    /\ completedGames = EmptyMap
    /\ paidRewards = EmptyMap
    /\ rewardCalls = EmptyBag
    /\ gatewayLog = <<>>
    /\ timers = {}
    /\ nextCleanup = IF variant = "gameId" THEN CLEANUP_INTERVAL_MS
                     ELSE INACTIVE_CLEANUP_INTERVAL_MS
    /\ response = NoResponse
    /\ requests = 0

\* a handler runs for one more request
Request ==
    /\ requests < MaxRequests
    /\ requests' = requests + 1

\* a request answered without touching any state
Reject(op, gameId, status, error) ==
    /\ response' = Answer(op, gameId, status, error, NoBody)
    /\ UNCHANGED <<variant, now, nextGameId, gameStates, luckyTripleGames,
                   playerGameSessions, activePlayers, completedGames, paidRewards,
                   rewardCalls, gatewayLog, timers, nextCleanup>>

----------------------------------------------------------------------------
(* Reward payout (the same code in both variants, up to the confirmation await) *)

RewardCall(receiverAddress, gameId, rewardAmount, stage) ==
    [receiverAddress |-> receiverAddress, gameId |-> gameId,
     rewardAmount |-> rewardAmount, stage |-> stage]

\* sendCardsReward without its membership test: every call writes 'pending' and
\* goes on to the gateway
sendCardsRewardUnchecked(receiverAddress, gameId, rewardAmount, pr, calls) ==
    [returned |-> FALSE,
     paidRewards |-> MapSet(pr, <<receiverAddress, gameId>>, "pending"),
     rewardCalls |-> calls (+) SetToBag({RewardCall(receiverAddress, gameId,
                                                    rewardAmount, "prepare")})]

\* sendCardsReward that leaves the ledger alone until the gateway has answered
sendCardsRewardLatePending(receiverAddress, gameId, rewardAmount, pr, calls) ==
    IF <<receiverAddress, gameId>> \in DOMAIN pr
    THEN [returned |-> TRUE, paidRewards |-> pr, rewardCalls |-> calls]
    ELSE [returned |-> FALSE, paidRewards |-> pr,
          rewardCalls |-> calls (+) SetToBag({RewardCall(receiverAddress, gameId,
                                                         rewardAmount, "prepare")})]

\* sendCardsReward that takes a 'failed' entry for an absent one and tries again
sendCardsRewardRetryFailed(receiverAddress, gameId, rewardAmount, pr, calls) ==
    LET transactionKey == <<receiverAddress, gameId>>
    IN  IF transactionKey \in DOMAIN pr /\ pr[transactionKey] # "failed"
        THEN [returned |-> TRUE, paidRewards |-> pr, rewardCalls |-> calls]
        ELSE [returned |-> FALSE,
              paidRewards |-> MapSet(pr, transactionKey, "pending"),
              rewardCalls |-> calls (+) SetToBag({RewardCall(receiverAddress, gameId,
                                                             rewardAmount, "prepare")})]

\* sendCardsReward up to its first await on the network. returned = TRUE is the
\* early "return null"; otherwise the call is suspended in rewardCalls.
sendCardsReward(receiverAddress, gameId, rewardAmount, pr, calls) ==
    LET transactionKey == <<receiverAddress, gameId>>
    IN  IF transactionKey \in DOMAIN pr
        THEN [returned |-> TRUE, paidRewards |-> pr, rewardCalls |-> calls]
        ELSE [returned |-> FALSE,
              paidRewards |-> MapSet(pr, transactionKey, "pending"),
              rewardCalls |-> calls (+) SetToBag({RewardCall(receiverAddress, gameId,
                                                             rewardAmount, "prepare")})]

\* a processReward that returns without calling sendCardsReward
processRewardWithoutSending(gameState, pr, calls) ==
    [gameState |-> gameState, paidRewards |-> pr, rewardCalls |-> calls]

\* a processReward that asks for one unit more than the reward of the hand
processRewardOneMore(gameState, pr, calls) ==
    IF gameState.rewardPaid
    THEN [gameState |-> gameState, paidRewards |-> pr, rewardCalls |-> calls]
    ELSE IF gameState.currentReward <= 0
    THEN [gameState |-> gameState, paidRewards |-> pr, rewardCalls |-> calls]
    ELSE LET sent == sendCardsReward(gameState.playerId, gameState.gameId,
                                     gameState.currentReward + 1, pr, calls)
         IN  [gameState |-> IF sent.returned
                            THEN [gameState EXCEPT !.rewardPaid = TRUE]
                            ELSE gameState,
              paidRewards |-> sent.paidRewards,
              rewardCalls |-> sent.rewardCalls]

\* processReward up to the point where its await suspends it; when
\* sendCardsReward returned at once, the continuation (rewardPaid = true) runs
\* as a microtask of the same turn.
processReward(gameState, pr, calls) ==
    IF gameState.rewardPaid
    THEN [gameState |-> gameState, paidRewards |-> pr, rewardCalls |-> calls]
    ELSE IF gameState.currentReward <= 0
    THEN [gameState |-> gameState, paidRewards |-> pr, rewardCalls |-> calls]
    ELSE LET sent == sendCardsReward(gameState.playerId, gameState.gameId,
                                     gameState.currentReward, pr, calls)
         IN  [gameState |-> IF sent.returned
                            THEN [gameState EXCEPT !.rewardPaid = TRUE]
                            ELSE gameState,
              paidRewards |-> sent.paidRewards,
              rewardCalls |-> sent.rewardCalls]

----------------------------------------------------------------------------
(* Timeout detection *)

\* the time left, counted from the session's last action
TimeRemainingSinceLastAction(gameState) ==
    Max(0, GAME_TIMEOUT_MS - (now - gameState.lastActionTime))

TimeRemaining(gameState) == Max(0, GAME_TIMEOUT_MS - (now - gameState.timestamp))

CompletedRecord(playerId, result, processed) ==
    [playerId |-> playerId, result |-> result, processed |-> processed]

\* gameId variant. The result carries handleTimedOutGame's return value.
handleTimedOutGame(gameState, cg, tm) ==
    [gameState |-> [gameState EXCEPT !.isEnded = TRUE, !.timedOut = TRUE],
     completedGames |-> MapSet(cg, gameState.gameId,
                               CompletedRecord(gameState.playerId, "timeout", TRUE)),
     timers |-> tm \cup {PlayerTimer("activePlayers.delete", gameState.playerId,
                                     ACTIVE_PLAYER_DELAY_MS)},
     result |-> [gameId |-> gameState.gameId,
                 finalCombination |-> gameState.currentCombination,
                 reward |-> 0, gameCompleted |-> TRUE, isEnded |-> TRUE,
                 timedOut |-> TRUE, timeRemaining |-> 0]]

verifyTimeRemainingG(gameState, cg, tm) ==
    IF TimeRemaining(gameState) <= 0 /\ ~gameState.isEnded
    THEN handleTimedOutGame(gameState, cg, tm)
    ELSE [gameState |-> gameState, completedGames |-> cg, timers |-> tm,
          result |-> [timeRemaining |-> Ceil(TimeRemaining(gameState), 1000),
                      isTimedOut |-> FALSE]]

\* playerId variant
verifyTimeRemainingP(gameState, playerId, cg) ==
    IF TimeRemaining(gameState) <= 0 /\ ~gameState.isEnded
    THEN [gameState |-> [gameState EXCEPT !.isEnded = TRUE, !.timedOut = TRUE],
          completedGames |-> MapSet(cg, gameState.gameId,
                                    CompletedRecord(playerId, "timeout", TRUE)),
          result |-> [timeRemaining |-> 0, isTimedOut |-> TRUE, isEnded |-> TRUE,
                      serverTime |-> now]]
    ELSE [gameState |-> gameState, completedGames |-> cg,
          result |-> [timeRemaining |-> Ceil(TimeRemaining(gameState), 1000),
                      isTimedOut |-> FALSE, isEnded |-> gameState.isEnded,
                      serverTime |-> now]]

----------------------------------------------------------------------------
(* Dealing *)

\* a loop that takes two cards from the deck for every position it fills
RECURSIVE DrawCardsTakingTwo(_, _, _, _, _, _)
DrawCardsTakingTwo(i, newCards, deck, roundsPlayed, currentHeldCards, previousCards) ==
    IF i >= 3 THEN [cards |-> newCards, deck |-> deck]
    ELSE IF roundsPlayed # 0 /\ Includes(currentHeldCards, i)
    THEN DrawCardsTakingTwo(i + 1, Append(newCards, previousCards[i + 1]), deck,
                            roundsPlayed, currentHeldCards, previousCards)
    ELSE DrawCardsTakingTwo(i + 1, Append(newCards, deck[Len(deck)]),
                            SubSeq(deck, 1, Len(deck) - 2),
                            roundsPlayed, currentHeldCards, previousCards)

\* a loop that fills every position from the deck, held or not
RECURSIVE DrawCardsIgnoringHeld(_, _, _, _, _, _)
DrawCardsIgnoringHeld(i, newCards, deck, roundsPlayed, currentHeldCards, previousCards) ==
    IF i >= 3 THEN [cards |-> newCards, deck |-> deck]
    ELSE DrawCardsIgnoringHeld(i + 1, Append(newCards, deck[Len(deck)]),
                               SubSeq(deck, 1, Len(deck) - 1),
                               roundsPlayed, currentHeldCards, previousCards)

\* a loop that reads the top card of the deck without removing it
RECURSIVE DrawCardsWithoutRemoving(_, _, _, _, _, _)
DrawCardsWithoutRemoving(i, newCards, deck, roundsPlayed, currentHeldCards, previousCards) ==
    IF i >= 3 THEN [cards |-> newCards, deck |-> deck]
    ELSE IF roundsPlayed # 0 /\ Includes(currentHeldCards, i)
    THEN DrawCardsWithoutRemoving(i + 1, Append(newCards, previousCards[i + 1]), deck,
                                  roundsPlayed, currentHeldCards, previousCards)
    ELSE DrawCardsWithoutRemoving(i + 1, Append(newCards, deck[Len(deck)]), deck,
                                  roundsPlayed, currentHeldCards, previousCards)

\* the loop "for (let i = 0; i < 3; i++)" of draw, from position i on
RECURSIVE DrawCards(_, _, _, _, _, _)
DrawCards(i, newCards, deck, roundsPlayed, currentHeldCards, previousCards) ==
    IF i >= 3 THEN [cards |-> newCards, deck |-> deck]
    ELSE IF roundsPlayed # 0 /\ Includes(currentHeldCards, i)
    THEN DrawCards(i + 1, Append(newCards, previousCards[i + 1]), deck,
                   roundsPlayed, currentHeldCards, previousCards)
    ELSE DrawCards(i + 1, Append(newCards, deck[Len(deck)]),
                   SubSeq(deck, 1, Len(deck) - 1),
                   roundsPlayed, currentHeldCards, previousCards)

\* a deal that counts two rounds
DealtTwoRounds(gameState, deck) ==
    LET drawn == DrawCards(0, <<>>, deck, gameState.roundsPlayed,
                           gameState.heldCards, gameState.cards)
        handResult == evaluateHandCombination(drawn.cards)
    IN  [gameState EXCEPT !.deck = drawn.deck,
                          !.cards = drawn.cards,
                          !.currentCombination = handResult.combination,
                          !.currentReward = handResult.reward,
                          !.roundsPlayed = @ + 2,
                          !.heldCards = <<>>]

\* a deal that leaves the round counter where it was
DealtSameRound(gameState, deck) ==
    LET drawn == DrawCards(0, <<>>, deck, gameState.roundsPlayed,
                           gameState.heldCards, gameState.cards)
        handResult == evaluateHandCombination(drawn.cards)
    IN  [gameState EXCEPT !.deck = drawn.deck,
                          !.cards = drawn.cards,
                          !.currentCombination = handResult.combination,
                          !.currentReward = handResult.reward,
                          !.heldCards = <<>>]

\* a deal that leaves the held set as the last hold stored it
DealtKeepingHeldSet(gameState, deck) ==
    LET drawn == DrawCards(0, <<>>, deck, gameState.roundsPlayed,
                           gameState.heldCards, gameState.cards)
        handResult == evaluateHandCombination(drawn.cards)
    IN  [gameState EXCEPT !.deck = drawn.deck,
                          !.cards = drawn.cards,
                          !.currentCombination = handResult.combination,
                          !.currentReward = handResult.reward,
                          !.roundsPlayed = @ + 1]

\* a deal that stores the new hand and leaves combination and reward as they were
DealtStaleCombination(gameState, deck) ==
    LET drawn == DrawCards(0, <<>>, deck, gameState.roundsPlayed,
                           gameState.heldCards, gameState.cards)
    IN  [gameState EXCEPT !.deck = drawn.deck,
                          !.cards = drawn.cards,
                          !.roundsPlayed = @ + 1,
                          !.heldCards = <<>>]

\* the session after the deal: hand, combination, reward, round counter, held set
Dealt(gameState, deck) ==
    LET drawn == DrawCards(0, <<>>, deck, gameState.roundsPlayed,
                           gameState.heldCards, gameState.cards)
        handResult == evaluateHandCombination(drawn.cards)
    IN  [gameState EXCEPT !.deck = drawn.deck,
                          !.cards = drawn.cards,
                          !.currentCombination = handResult.combination,
                          !.currentReward = handResult.reward,
                          !.roundsPlayed = @ + 1,
                          !.heldCards = <<>>]

----------------------------------------------------------------------------
(* gameId variant: POST /lucky-triple/start *)

StartG(playerId, entryFeePaid, seed) ==
    /\ variant = "gameId"
    /\ Request
    /\ IF ~entryFeePaid
       THEN Reject("start", NoGame, 400, "Entry fee of 3 CARDS must be paid before creating a game")
       ELSE IF playerId \in activePlayers
       THEN Reject("start", NoGame, 409, "You already have an active game in progress. Complete or reset that game first.")
       ELSE /\ nextGameId <= MaxGames
            /\ LET gameId == nextGameId
                   deck == createAndShuffleLuckyTripleDeck(seed)
               IN  /\ activePlayers' = activePlayers \cup {playerId}
                   /\ nextGameId' = nextGameId + 1
                   /\ luckyTripleGames' = luckyTripleGames \cup {gameId}
                   /\ gameStates' = MapSet(gameStates, gameId,
                                           NewGameState(gameId, playerId, deck, now))
                   /\ response' = Answer("start", gameId, 200, "", StartBody(gameId, playerId))
            /\ UNCHANGED <<variant, now, playerGameSessions, completedGames, paidRewards,
                           rewardCalls, gatewayLog, timers, nextCleanup>>

----------------------------------------------------------------------------
(* gameId variant: POST /lucky-triple/hold *)

\* a hold that also counts a round
HoldGCountingRound(gameId, cardIndexes) ==
    /\ variant = "gameId"
    /\ Request
    /\ gameId \in 1..(nextGameId - 1)
    /\ IF gameId \notin luckyTripleGames
       THEN Reject("hold", gameId, 404, "Game not found")
       ELSE IF Len(cardIndexes) > 2
       THEN Reject("hold", gameId, 400, "Cannot hold more than 2 cards")
       ELSE IF gameStates[gameId].roundsPlayed = 0 \/ gameStates[gameId].roundsPlayed >= 3
       THEN Reject("hold", gameId, 400, "Can only hold cards after first and second round")
       ELSE /\ gameStates' = [gameStates EXCEPT ![gameId].heldCards = cardIndexes,
                                                ![gameId].roundsPlayed = @ + 1]
            /\ response' = Answer("hold", gameId, 200, "", [success |-> TRUE, heldCards |-> cardIndexes])
            /\ UNCHANGED <<variant, now, nextGameId, luckyTripleGames, playerGameSessions,
                           activePlayers, completedGames, paidRewards, rewardCalls,
                           gatewayLog, timers, nextCleanup>>

HoldG(gameId, cardIndexes) ==
    /\ variant = "gameId"
    /\ Request
    /\ gameId \in 1..(nextGameId - 1)
    /\ IF gameId \notin luckyTripleGames
       THEN Reject("hold", gameId, 404, "Game not found")
       ELSE IF Len(cardIndexes) > 2
       THEN Reject("hold", gameId, 400, "Cannot hold more than 2 cards")
       ELSE IF gameStates[gameId].roundsPlayed = 0 \/ gameStates[gameId].roundsPlayed >= 3
       THEN Reject("hold", gameId, 400, "Can only hold cards after first and second round")
       ELSE /\ gameStates' = [gameStates EXCEPT ![gameId].heldCards = cardIndexes]
            /\ response' = Answer("hold", gameId, 200, "", [success |-> TRUE, heldCards |-> cardIndexes])
            /\ UNCHANGED <<variant, now, nextGameId, luckyTripleGames, playerGameSessions,
                           activePlayers, completedGames, paidRewards, rewardCalls,
                           gatewayLog, timers, nextCleanup>>

----------------------------------------------------------------------------
(* gameId variant: POST /lucky-triple/draw *)

DrawBody(gameState, previouslyHeld, remainingTime, rewardPaid) ==
    [cards |-> gameState.cards,
     combination |-> gameState.currentCombination, reward |-> gameState.currentReward,
     roundsLeft |-> gameState.maxRounds - gameState.roundsPlayed,
     remainingCards |-> Len(gameState.deck), isEnded |-> gameState.isEnded,
     timeRemaining |-> remainingTime, heldCards |-> <<>>,
     previouslyHeld |-> previouslyHeld, playerId |-> gameState.playerId,
     rewardPaid |-> rewardPaid]

DrawG(gameId, seed) ==
    /\ variant = "gameId"
    /\ Request
    /\ gameId \in 1..(nextGameId - 1)
    /\ IF gameId \notin luckyTripleGames
       THEN Reject("draw", gameId, 404, "Game not found")
       ELSE IF gameStates[gameId].isEnded
       THEN Reject("draw", gameId, 400, "Game has already ended")
       ELSE
       LET timed == verifyTimeRemainingG(gameStates[gameId], completedGames, timers)
           timeCheck == timed.result
           gameState == timed.gameState
       IN  IF Truthy(timeCheck, "isTimedOut")
           THEN /\ luckyTripleGames' = luckyTripleGames \ {gameId}
                /\ gameStates' = Referenced(MapSet(gameStates, gameId, gameState),
                                            luckyTripleGames', playerGameSessions,
                                            rewardCalls)
                /\ completedGames' = timed.completedGames
                /\ timers' = timed.timers
                /\ response' = Answer("draw", gameId, 400, "Game has timed out",
                                      timeCheck)
                /\ UNCHANGED <<variant, now, nextGameId, playerGameSessions,
                               activePlayers, paidRewards, rewardCalls, gatewayLog,
                               nextCleanup>>
           ELSE IF gameState.roundsPlayed >= gameState.maxRounds
           THEN /\ gameStates' = MapSet(gameStates, gameId,
                                        [gameState EXCEPT !.isEnded = TRUE])
                /\ completedGames' = timed.completedGames
                /\ timers' = timed.timers
                /\ response' = Answer("draw", gameId, 400, "Maximum rounds reached for this game",
                                      NoBody)
                /\ UNCHANGED <<variant, now, nextGameId, luckyTripleGames,
                               playerGameSessions, activePlayers, paidRewards,
                               rewardCalls, gatewayLog, nextCleanup>>
           ELSE
           LET deck == IF Len(gameState.deck) < 3
                       THEN createAndShuffleLuckyTripleDeck(seed)
                       ELSE gameState.deck
               dealt == Dealt(gameState, deck)
               lastRound == dealt.roundsPlayed >= dealt.maxRounds
               ended == IF lastRound THEN [dealt EXCEPT !.isEnded = TRUE] ELSE dealt
               win == lastRound /\ ended.currentReward > 0
               paid == IF win
                       THEN processReward(ended, paidRewards, rewardCalls)
                       ELSE [gameState |-> ended, paidRewards |-> paidRewards,
                             rewardCalls |-> rewardCalls]
               remainingTime == IF ended.isEnded THEN 0
                                ELSE Ceil(TimeRemaining(ended), 1000)
           IN  /\ gameStates' = MapSet(gameStates, gameId, paid.gameState)
               /\ completedGames' =
                     IF ~lastRound THEN timed.completedGames
                     ELSE MapSet(timed.completedGames, gameId,
                                 IF win THEN CompletedRecord(ended.playerId, "win", FALSE)
                                 ELSE CompletedRecord(ended.playerId, "loss", TRUE))
               /\ timers' =
                     IF lastRound /\ ~win
                     THEN timed.timers \cup {PlayerTimer("activePlayers.delete",
                                                         ended.playerId,
                                                         ACTIVE_PLAYER_DELAY_MS)}
                     ELSE timed.timers
               /\ paidRewards' = paid.paidRewards
               /\ rewardCalls' = paid.rewardCalls
               /\ response' = Answer("draw", gameId, 200, "",
                                     DrawBody(ended, gameState.heldCards, remainingTime,
                                              ended.rewardPaid))
               /\ UNCHANGED <<variant, now, nextGameId, luckyTripleGames,
                              playerGameSessions, activePlayers, gatewayLog, nextCleanup>>

----------------------------------------------------------------------------
(* gameId variant: POST /lucky-triple/check *)

CheckBody(gameState) ==
    [gameId |-> gameState.gameId, playerId |-> gameState.playerId,
     combination |-> gameState.currentCombination, reward |-> gameState.currentReward,
     gameCompleted |-> TRUE, isEnded |-> TRUE, isWin |-> gameState.currentReward > 0,
     timeRemaining |-> 0, rewardPaid |-> gameState.rewardPaid]

CheckG(gameId) ==
    /\ variant = "gameId"
    /\ Request
    /\ gameId \in 1..(nextGameId - 1)
    /\ IF gameId \notin luckyTripleGames
       THEN Reject("check", gameId, 404, "Game not found")
       ELSE
       LET timed == verifyTimeRemainingG(gameStates[gameId], completedGames, timers)
           timeCheck == timed.result
       IN  IF Truthy(timeCheck, "isTimedOut")
           THEN /\ luckyTripleGames' = luckyTripleGames \ {gameId}
                /\ gameStates' = Referenced(MapSet(gameStates, gameId, timed.gameState),
                                            luckyTripleGames', playerGameSessions,
                                            rewardCalls)
                /\ completedGames' = timed.completedGames
                /\ timers' = timed.timers
                /\ response' = Answer("check", gameId, 400, "Game has timed out",
                                      timeCheck)
                /\ UNCHANGED <<variant, now, nextGameId, playerGameSessions,
                               activePlayers, paidRewards, rewardCalls, gatewayLog,
                               nextCleanup>>
           ELSE
           LET gameState == [timed.gameState EXCEPT !.isEnded = TRUE]
               paid == IF gameState.currentReward > 0
                       THEN processReward(gameState, paidRewards, rewardCalls)
                       ELSE [gameState |-> gameState, paidRewards |-> paidRewards,
                             rewardCalls |-> rewardCalls]
           IN  /\ gameStates' = MapSet(gameStates, gameId, paid.gameState)
               /\ completedGames' =
                     MapSet(timed.completedGames, gameId,
                            CompletedRecord(gameState.playerId,
                                            IF gameState.currentReward > 0
                                            THEN "win" ELSE "loss",
                                            FALSE))
               /\ timers' = timed.timers
                              \cup {PlayerTimer("activePlayers.delete", gameState.playerId,
                                                ACTIVE_PLAYER_DELAY_MS),
                                    GameTimer("luckyTripleGames.delete", gameId,
                                              GAME_DELETE_DELAY_MS)}
               /\ paidRewards' = paid.paidRewards
               /\ rewardCalls' = paid.rewardCalls
               /\ response' = Answer("check", gameId, 200, "", CheckBody(gameState))
               /\ UNCHANGED <<variant, now, nextGameId, luckyTripleGames,
                              playerGameSessions, activePlayers, gatewayLog, nextCleanup>>

----------------------------------------------------------------------------
(* gameId variant: GET /lucky-triple/status/:gameId *)

StatusBody(gameState, isEnded, timedOut, timeRemaining) ==
    [gameId |-> gameState.gameId, playerId |-> gameState.playerId,
     isEnded |-> isEnded, timedOut |-> timedOut, timeRemaining |-> timeRemaining,
     roundsLeft |-> gameState.maxRounds - gameState.roundsPlayed,
     currentCombination |-> gameState.currentCombination,
     currentReward |-> gameState.currentReward, rewardPaid |-> gameState.rewardPaid]

\* the status read that calls processReward for the session it reports
StatusGDispatching(gameId) ==
    /\ variant = "gameId"
    /\ Request
    /\ gameId \in 1..(nextGameId - 1)
    /\ IF gameId \notin luckyTripleGames
       THEN Reject("status", gameId, 404, "Game not found")
       ELSE
       LET timed == verifyTimeRemainingG(gameStates[gameId], completedGames, timers)
           timeCheck == timed.result
           gameState == timed.gameState
       IN  IF Truthy(timeCheck, "isTimedOut")
           THEN /\ luckyTripleGames' = luckyTripleGames \ {gameId}
                /\ gameStates' = Referenced(MapSet(gameStates, gameId, gameState),
                                            luckyTripleGames', playerGameSessions,
                                            rewardCalls)
                /\ completedGames' = timed.completedGames
                /\ timers' = timed.timers
                /\ response' = Answer("status", gameId, 404, "Game has timed out",
                                      NoBody)
                /\ UNCHANGED <<variant, now, nextGameId, playerGameSessions,
                               activePlayers, paidRewards, rewardCalls, gatewayLog,
                               nextCleanup>>
           ELSE /\ gameStates' = MapSet(gameStates, gameId,
                                        processReward(gameState, paidRewards,
                                                      rewardCalls).gameState)
                /\ paidRewards' = processReward(gameState, paidRewards,
                                                rewardCalls).paidRewards
                /\ rewardCalls' = processReward(gameState, paidRewards,
                                                rewardCalls).rewardCalls
                /\ completedGames' = timed.completedGames
                /\ timers' = IF gameState.isEnded
                             THEN timed.timers
                                    \cup {GameTimer("luckyTripleGames.delete", gameId, 0)}
                             ELSE timed.timers
                /\ response' = Answer("status", gameId, 200, "",
                                      StatusBody(gameState, gameState.isEnded,
                                                 gameState.timedOut,
                                                 timeCheck.timeRemaining))
                /\ UNCHANGED <<variant, now, nextGameId, luckyTripleGames,
                               playerGameSessions, activePlayers, gatewayLog,
                               nextCleanup>>

StatusG(gameId) ==
    /\ variant = "gameId"
    /\ Request
    /\ gameId \in 1..(nextGameId - 1)
    /\ IF gameId \notin luckyTripleGames
       THEN Reject("status", gameId, 404, "Game not found")
       ELSE
       LET timed == verifyTimeRemainingG(gameStates[gameId], completedGames, timers)
           timeCheck == timed.result
           gameState == timed.gameState
       IN  IF Truthy(timeCheck, "isTimedOut")
           THEN /\ luckyTripleGames' = luckyTripleGames \ {gameId}
                /\ gameStates' = Referenced(MapSet(gameStates, gameId, gameState),
                                            luckyTripleGames', playerGameSessions,
                                            rewardCalls)
                /\ completedGames' = timed.completedGames
                /\ timers' = timed.timers
                /\ response' = Answer("status", gameId, 404, "Game has timed out",
                                      NoBody)
                /\ UNCHANGED <<variant, now, nextGameId, playerGameSessions,
                               activePlayers, paidRewards, rewardCalls, gatewayLog,
                               nextCleanup>>
           ELSE /\ gameStates' = MapSet(gameStates, gameId, gameState)
                /\ completedGames' = timed.completedGames
                /\ timers' = IF gameState.isEnded
                             THEN timed.timers
                                    \cup {GameTimer("luckyTripleGames.delete", gameId, 0)}
                             ELSE timed.timers
                /\ response' = Answer("status", gameId, 200, "",
                                      StatusBody(gameState, gameState.isEnded,
                                                 gameState.timedOut,
                                                 timeCheck.timeRemaining))
                /\ UNCHANGED <<variant, now, nextGameId, luckyTripleGames,
                               playerGameSessions, activePlayers, paidRewards,
                               rewardCalls, gatewayLog, nextCleanup>>

----------------------------------------------------------------------------
(* gameId variant: POST /lucky-triple/reset *)

\* the reset that deletes the games of every player
ResetGClearsRegistry(playerId, entryFeePaid, seed) ==
    /\ variant = "gameId"
    /\ Request
    /\ IF ~entryFeePaid
       THEN Reject("reset", NoGame, 400, "Entry fee of 3 CARDS must be paid before resetting a game")
       ELSE /\ nextGameId <= MaxGames
            /\ LET gameId == nextGameId
                   deck == createAndShuffleLuckyTripleDeck(seed)
                   kept == {}
               IN  /\ activePlayers' = (activePlayers \ {playerId}) \cup {playerId}
                   /\ nextGameId' = nextGameId + 1
                   /\ luckyTripleGames' = kept \cup {gameId}
                   /\ gameStates' =
                         Referenced(MapSet(gameStates, gameId,
                                           NewGameState(gameId, playerId, deck, now)),
                                    luckyTripleGames', playerGameSessions, rewardCalls)
                   /\ response' = Answer("reset", gameId, 200, "", StartBody(gameId, playerId))
            /\ UNCHANGED <<variant, now, playerGameSessions, completedGames, paidRewards,
                           rewardCalls, gatewayLog, timers, nextCleanup>>

ResetG(playerId, entryFeePaid, seed) ==
    /\ variant = "gameId"
    /\ Request
    /\ IF ~entryFeePaid
       THEN Reject("reset", NoGame, 400, "Entry fee of 3 CARDS must be paid before resetting a game")
       ELSE /\ nextGameId <= MaxGames
            /\ LET gameId == nextGameId
                   deck == createAndShuffleLuckyTripleDeck(seed)
                   kept == {g \in luckyTripleGames : gameStates[g].playerId # playerId}
               IN  /\ activePlayers' = (activePlayers \ {playerId}) \cup {playerId}
                   /\ nextGameId' = nextGameId + 1
                   /\ luckyTripleGames' = kept \cup {gameId}
                   /\ gameStates' =
                         Referenced(MapSet(gameStates, gameId,
                                           NewGameState(gameId, playerId, deck, now)),
                                    luckyTripleGames', playerGameSessions, rewardCalls)
                   /\ response' = Answer("reset", gameId, 200, "", StartBody(gameId, playerId))
            /\ UNCHANGED <<variant, now, playerGameSessions, completedGames, paidRewards,
                           rewardCalls, gatewayLog, timers, nextCleanup>>

----------------------------------------------------------------------------
(* gameId variant: setInterval(cleanupTimedOutGames, CLEANUP_INTERVAL_MS) *)

\* the "for ... of luckyTripleGames.entries()" loop over the entries still to
\* visit, in insertion order (game ids grow with insertion)
RECURSIVE CleanupLoop(_, _)
CleanupLoop(entries, st) ==
    IF entries = {} THEN st
    ELSE LET gameId == CHOOSE g \in entries : \A h \in entries : g <= h
             gameState == st.gameStates[gameId]
             rest == entries \ {gameId}
         IN  IF gameState.isEnded
             THEN CleanupLoop(rest,
                     [st EXCEPT !.luckyTripleGames = @ \ {gameId}])
             ELSE IF now - gameState.timestamp > GAME_TIMEOUT_MS
             THEN LET timed == handleTimedOutGame(gameState, st.completedGames, st.timers)
                  IN  CleanupLoop(rest,
                         [gameStates |-> MapSet(st.gameStates, gameId, timed.gameState),
                          luckyTripleGames |-> st.luckyTripleGames \ {gameId},
                          activePlayers |-> st.activePlayers \ {gameState.playerId},
                          completedGames |-> timed.completedGames,
                          timers |-> timed.timers])
             ELSE CleanupLoop(rest, st)

cleanupTimedOutGames ==
    /\ variant = "gameId"
    /\ now = nextCleanup
    /\ LET st == CleanupLoop(luckyTripleGames,
                             [gameStates |-> gameStates,
                              luckyTripleGames |-> luckyTripleGames,
                              activePlayers |-> activePlayers,
                              completedGames |-> completedGames,
                              timers |-> timers])
       IN  /\ luckyTripleGames' = st.luckyTripleGames
           /\ gameStates' = Referenced(st.gameStates, st.luckyTripleGames,
                                       playerGameSessions, rewardCalls)
           /\ activePlayers' = st.activePlayers
           /\ completedGames' = st.completedGames
           /\ timers' = st.timers
    /\ nextCleanup' = nextCleanup + CLEANUP_INTERVAL_MS
    /\ response' = NoResponse
    /\ UNCHANGED <<requests, variant, now, nextGameId, playerGameSessions, paidRewards,
                   rewardCalls, gatewayLog>>

----------------------------------------------------------------------------
(* playerId variant: POST /lucky-triple/start and POST /lucky-triple/reset *)

\* both handlers drop the player's session, if any, and store a fresh one
NewSessionP(op, playerId, seed) ==
    /\ nextGameId <= MaxGames
    /\ LET gameId == nextGameId
           deck == createAndShuffleLuckyTripleDeck(seed)
       IN  /\ nextGameId' = nextGameId + 1
           /\ playerGameSessions' = [playerGameSessions EXCEPT ![playerId] = gameId]
           /\ gameStates' =
                 Referenced(MapSet(gameStates, gameId,
                                   NewGameState(gameId, playerId, deck, now)),
                            luckyTripleGames, playerGameSessions', rewardCalls)
           /\ response' = Answer(op, gameId, 200, "", StartBody(gameId, playerId))
    /\ UNCHANGED <<variant, now, luckyTripleGames, activePlayers, completedGames,
                   paidRewards, rewardCalls, gatewayLog, timers, nextCleanup>>

StartP(playerId, entryFeePaid, seed) ==
    /\ variant = "playerId"
    /\ Request
    /\ IF ~entryFeePaid
       THEN Reject("start", NoGame, 400, "Entry fee of 3 CARDS must be paid before creating a game")
       ELSE NewSessionP("start", playerId, seed)

ResetP(playerId, entryFeePaid, seed) ==
    /\ variant = "playerId"
    /\ Request
    /\ IF ~entryFeePaid
       THEN Reject("reset", NoGame, 400, "Entry fee of 3 CARDS must be paid before resetting a game")
       ELSE NewSessionP("reset", playerId, seed)

----------------------------------------------------------------------------
(* playerId variant: POST /lucky-triple/hold *)

HoldP(gameId, cardIndexes) ==
    /\ variant = "playerId"
    /\ Request
    /\ gameId \in 1..(nextGameId - 1)
    /\ IF FindPlayer(gameId) = NoPlayer
       THEN Reject("hold", gameId, 404, "Game not found")
       ELSE IF Len(cardIndexes) > 2
       THEN Reject("hold", gameId, 400, "Cannot hold more than 2 cards")
       ELSE IF gameStates[gameId].roundsPlayed = 0 \/ gameStates[gameId].roundsPlayed >= 3
       THEN Reject("hold", gameId, 400, "Can only hold cards after first and second round")
       ELSE /\ gameStates' = [gameStates EXCEPT ![gameId].heldCards = cardIndexes,
                                                ![gameId].lastActionTime = now]
            /\ response' = Answer("hold", gameId, 200, "", [success |-> TRUE, heldCards |-> cardIndexes])
            /\ UNCHANGED <<variant, now, nextGameId, luckyTripleGames, playerGameSessions,
                           activePlayers, completedGames, paidRewards, rewardCalls,
                           gatewayLog, timers, nextCleanup>>

----------------------------------------------------------------------------
(* playerId variant: GET /lucky-triple/time/:gameId *)

TimeP(gameId) ==
    /\ variant = "playerId"
    /\ Request
    /\ gameId \in 1..(nextGameId - 1)
    /\ IF FindPlayer(gameId) = NoPlayer
       THEN Reject("time", gameId, 404, "Game not found")
       ELSE
       LET playerId == FindPlayer(gameId)
           gameState == gameStates[gameId]
       IN  IF TimeRemaining(gameState) <= 0 /\ ~gameState.isEnded
           THEN /\ gameStates' = [gameStates EXCEPT ![gameId].isEnded = TRUE,
                                                    ![gameId].timedOut = TRUE]
                /\ completedGames' = MapSet(completedGames, gameId,
                                            CompletedRecord(playerId, "timeout", TRUE))
                /\ timers' = timers \cup {PlayerTimer("playerGameSessions.delete",
                                                      playerId, ACTIVE_PLAYER_DELAY_MS)}
                /\ response' = Answer("time", gameId, 200, "",
                                      [timeRemaining |-> 0, isTimedOut |-> TRUE, isEnded |-> TRUE])
                /\ UNCHANGED <<variant, now, nextGameId, luckyTripleGames,
                               playerGameSessions, activePlayers, paidRewards,
                               rewardCalls, gatewayLog, nextCleanup>>
           ELSE /\ response' = Answer("time", gameId, 200, "",
                                      [timeRemaining |-> Ceil(TimeRemaining(gameState), 1000),
                                       isTimedOut |-> FALSE,
                                       isEnded |-> gameState.isEnded])
                /\ UNCHANGED <<variant, now, nextGameId, gameStates, luckyTripleGames,
                               playerGameSessions, activePlayers, completedGames,
                               paidRewards, rewardCalls, gatewayLog, timers, nextCleanup>>

\* the playerId variant's handlers on a timeout: the session leaves the registry
TimedOutP(op, gameId, playerId, timed) ==
    /\ playerGameSessions' = [playerGameSessions EXCEPT ![playerId] = NoGame]
    /\ gameStates' = Referenced(MapSet(gameStates, gameId, timed.gameState),
                                luckyTripleGames, playerGameSessions', rewardCalls)
    /\ completedGames' = timed.completedGames
    /\ response' = Answer(op, gameId, 400, "Game has timed out",
                          [timeRemaining |-> 0, isTimedOut |-> TRUE, isEnded |-> TRUE])
    /\ UNCHANGED <<variant, now, nextGameId, luckyTripleGames, activePlayers,
                   paidRewards, rewardCalls, gatewayLog, timers, nextCleanup>>

----------------------------------------------------------------------------
(* playerId variant: POST /lucky-triple/draw *)

\* the draw handler without its test of isEnded
DrawPWithoutEndedGuard(gameId, seed) ==
    /\ variant = "playerId"
    /\ Request
    /\ gameId \in 1..(nextGameId - 1)
    /\ IF FindPlayer(gameId) = NoPlayer
       THEN Reject("draw", gameId, 404, "Game not found")
       ELSE
       LET playerId == FindPlayer(gameId)
           timed == verifyTimeRemainingP(gameStates[gameId], playerId, completedGames)
           timeCheck == timed.result
           gameState == timed.gameState
       IN  IF timeCheck.isTimedOut
           THEN TimedOutP("draw", gameId, playerId, timed)
           ELSE IF gameState.roundsPlayed >= gameState.maxRounds
           THEN /\ gameStates' = MapSet(gameStates, gameId,
                                        [gameState EXCEPT !.isEnded = TRUE,
                                                          !.lastActionTime = now])
                /\ response' = Answer("draw", gameId, 400, "Maximum rounds reached for this game",
                                      NoBody)
                /\ UNCHANGED <<variant, now, nextGameId, luckyTripleGames,
                               playerGameSessions, activePlayers, completedGames,
                               paidRewards, rewardCalls, gatewayLog, timers, nextCleanup>>
           ELSE
           LET deck == IF Len(gameState.deck) < 3
                       THEN createAndShuffleLuckyTripleDeck(seed)
                       ELSE gameState.deck
               dealt == [Dealt(gameState, deck) EXCEPT !.lastActionTime = now]
               lastRound == dealt.roundsPlayed >= dealt.maxRounds
               ended == IF lastRound THEN [dealt EXCEPT !.isEnded = TRUE] ELSE dealt
               win == lastRound /\ ended.currentReward > 0
               paid == IF win
                       THEN processReward(ended, paidRewards, rewardCalls)
                       ELSE [gameState |-> ended, paidRewards |-> paidRewards,
                             rewardCalls |-> rewardCalls]
               remainingTime == IF ended.isEnded THEN 0
                                ELSE Ceil(TimeRemaining(ended), 1000)
           IN  /\ gameStates' = MapSet(gameStates, gameId, paid.gameState)
               /\ completedGames' =
                     IF ~lastRound THEN completedGames
                     ELSE MapSet(completedGames, gameId,
                                 IF win THEN CompletedRecord(playerId, "win", FALSE)
                                 ELSE CompletedRecord(playerId, "loss", TRUE))
               /\ timers' =
                     IF lastRound /\ ~win
                     THEN timers \cup {PlayerTimer("playerGameSessions.delete", playerId,
                                                   ACTIVE_PLAYER_DELAY_MS)}
                     ELSE timers
               /\ paidRewards' = paid.paidRewards
               /\ rewardCalls' = paid.rewardCalls
               /\ response' = Answer("draw", gameId, 200, "",
                                     DrawBody(ended, gameState.heldCards, remainingTime,
                                              ended.rewardPaid))
               /\ UNCHANGED <<variant, now, nextGameId, luckyTripleGames,
                              playerGameSessions, activePlayers, gatewayLog, nextCleanup>>

DrawP(gameId, seed) ==
    /\ variant = "playerId"
    /\ Request
    /\ gameId \in 1..(nextGameId - 1)
    /\ IF FindPlayer(gameId) = NoPlayer
       THEN Reject("draw", gameId, 404, "Game not found")
       ELSE IF gameStates[gameId].isEnded
       THEN Reject("draw", gameId, 400, "Game has already ended")
       ELSE
       LET playerId == FindPlayer(gameId)
           timed == verifyTimeRemainingP(gameStates[gameId], playerId, completedGames)
           timeCheck == timed.result
           gameState == timed.gameState
       IN  IF timeCheck.isTimedOut
           THEN TimedOutP("draw", gameId, playerId, timed)
           ELSE IF gameState.roundsPlayed >= gameState.maxRounds
           THEN /\ gameStates' = MapSet(gameStates, gameId,
                                        [gameState EXCEPT !.isEnded = TRUE,
                                                          !.lastActionTime = now])
                /\ response' = Answer("draw", gameId, 400, "Maximum rounds reached for this game",
                                      NoBody)
                /\ UNCHANGED <<variant, now, nextGameId, luckyTripleGames,
                               playerGameSessions, activePlayers, completedGames,
                               paidRewards, rewardCalls, gatewayLog, timers, nextCleanup>>
           ELSE
           LET deck == IF Len(gameState.deck) < 3
                       THEN createAndShuffleLuckyTripleDeck(seed)
                       ELSE gameState.deck
               dealt == [Dealt(gameState, deck) EXCEPT !.lastActionTime = now]
               lastRound == dealt.roundsPlayed >= dealt.maxRounds
               ended == IF lastRound THEN [dealt EXCEPT !.isEnded = TRUE] ELSE dealt
               win == lastRound /\ ended.currentReward > 0
               paid == IF win
                       THEN processReward(ended, paidRewards, rewardCalls)
                       ELSE [gameState |-> ended, paidRewards |-> paidRewards,
                             rewardCalls |-> rewardCalls]
               remainingTime == IF ended.isEnded THEN 0
                                ELSE Ceil(TimeRemaining(ended), 1000)
           IN  /\ gameStates' = MapSet(gameStates, gameId, paid.gameState)
               /\ completedGames' =
                     IF ~lastRound THEN completedGames
                     ELSE MapSet(completedGames, gameId,
                                 IF win THEN CompletedRecord(playerId, "win", FALSE)
                                 ELSE CompletedRecord(playerId, "loss", TRUE))
               /\ timers' =
                     IF lastRound /\ ~win
                     THEN timers \cup {PlayerTimer("playerGameSessions.delete", playerId,
                                                   ACTIVE_PLAYER_DELAY_MS)}
                     ELSE timers
               /\ paidRewards' = paid.paidRewards
               /\ rewardCalls' = paid.rewardCalls
               /\ response' = Answer("draw", gameId, 200, "",
                                     DrawBody(ended, gameState.heldCards, remainingTime,
                                              ended.rewardPaid))
               /\ UNCHANGED <<variant, now, nextGameId, luckyTripleGames,
                              playerGameSessions, activePlayers, gatewayLog, nextCleanup>>

----------------------------------------------------------------------------
(* playerId variant: POST /lucky-triple/check *)

CheckP(gameId) ==
    /\ variant = "playerId"
    /\ Request
    /\ gameId \in 1..(nextGameId - 1)
    /\ IF FindPlayer(gameId) = NoPlayer
       THEN Reject("check", gameId, 404, "Game not found")
       ELSE
       LET playerId == FindPlayer(gameId)
           timed == verifyTimeRemainingP(gameStates[gameId], playerId, completedGames)
       IN  IF timed.result.isTimedOut
           THEN TimedOutP("check", gameId, playerId, timed)
           ELSE
           LET gameState == [timed.gameState EXCEPT !.isEnded = TRUE,
                                                    !.lastActionTime = now]
               paid == IF gameState.currentReward > 0
                       THEN processReward(gameState, paidRewards, rewardCalls)
                       ELSE [gameState |-> gameState, paidRewards |-> paidRewards,
                             rewardCalls |-> rewardCalls]
           IN  /\ gameStates' = MapSet(gameStates, gameId, paid.gameState)
               /\ completedGames' =
                     MapSet(completedGames, gameId,
                            CompletedRecord(playerId,
                                            IF gameState.currentReward > 0
                                            THEN "win" ELSE "loss",
                                            FALSE))
               /\ timers' = timers
                              \cup {PlayerTimer("playerGameSessions.delete", playerId,
                                                ACTIVE_PLAYER_DELAY_MS),
                                    PlayerTimer("playerGameSessions.delete", playerId,
                                                GAME_DELETE_DELAY_MS)}
               /\ paidRewards' = paid.paidRewards
               /\ rewardCalls' = paid.rewardCalls
               /\ response' = Answer("check", gameId, 200, "", CheckBody(gameState))
               /\ UNCHANGED <<variant, now, nextGameId, luckyTripleGames,
                              playerGameSessions, activePlayers, gatewayLog, nextCleanup>>

----------------------------------------------------------------------------
(* playerId variant: GET /lucky-triple/status/:gameId *)

StatusP(gameId) ==
    /\ variant = "playerId"
    /\ Request
    /\ gameId \in 1..(nextGameId - 1)
    /\ IF FindPlayer(gameId) = NoPlayer
       THEN Reject("status", gameId, 404, "Game not found")
       ELSE
       LET playerId == FindPlayer(gameId)
           timed == verifyTimeRemainingP(gameStates[gameId], playerId, completedGames)
           timeCheck == timed.result
           gameState == timed.gameState
       IN  IF timeCheck.isTimedOut
           THEN TimedOutP("status", gameId, playerId, timed)
           ELSE /\ response' = Answer("status", gameId, 200, "",
                                      StatusBody(gameState,
                                                 gameState.isEnded \/ timeCheck.isEnded,
                                                 gameState.timedOut \/ timeCheck.isTimedOut,
                                                 timeCheck.timeRemaining))
                /\ UNCHANGED <<variant, now, nextGameId, gameStates, luckyTripleGames,
                               playerGameSessions, activePlayers, completedGames,
                               paidRewards, rewardCalls, gatewayLog, timers, nextCleanup>>

----------------------------------------------------------------------------
(* playerId variant: setInterval(cleanupInactiveGameSessions, 30 minutes) *)

\* a pass that removes the inactive sessions that have ended and no others
cleanupInactiveEndedSessions ==
    /\ variant = "playerId"
    /\ now = nextCleanup
    /\ LET oneHourAgo == now - INACTIVE_SESSION_MS
           removed == {playerId \in DOMAIN playerGameSessions :
                         /\ playerGameSessions[playerId] # NoGame
                         /\ gameStates[playerGameSessions[playerId]].isEnded
                         /\ gameStates[playerGameSessions[playerId]].lastActionTime
                               < oneHourAgo}
       IN  /\ playerGameSessions' = [playerId \in DOMAIN playerGameSessions |->
                                       IF playerId \in removed THEN NoGame
                                       ELSE playerGameSessions[playerId]]
           /\ gameStates' = Referenced(gameStates, luckyTripleGames,
                                       playerGameSessions', rewardCalls)
    /\ nextCleanup' = nextCleanup + INACTIVE_CLEANUP_INTERVAL_MS
    /\ response' = NoResponse
    /\ UNCHANGED <<requests, variant, now, nextGameId, luckyTripleGames, activePlayers,
                   completedGames, paidRewards, rewardCalls, gatewayLog, timers>>

cleanupInactiveGameSessions ==
    /\ variant = "playerId"
    /\ now = nextCleanup
    /\ LET oneHourAgo == now - INACTIVE_SESSION_MS
           removed == {playerId \in DOMAIN playerGameSessions :
                         /\ playerGameSessions[playerId] # NoGame
                         /\ gameStates[playerGameSessions[playerId]].lastActionTime
                               < oneHourAgo}
       IN  /\ playerGameSessions' = [playerId \in DOMAIN playerGameSessions |->
                                       IF playerId \in removed THEN NoGame
                                       ELSE playerGameSessions[playerId]]
           /\ gameStates' = Referenced(gameStates, luckyTripleGames,
                                       playerGameSessions', rewardCalls)
    /\ nextCleanup' = nextCleanup + INACTIVE_CLEANUP_INTERVAL_MS
    /\ response' = NoResponse
    /\ UNCHANGED <<requests, variant, now, nextGameId, luckyTripleGames, activePlayers,
                   completedGames, paidRewards, rewardCalls, gatewayLog, timers>>

----------------------------------------------------------------------------
(* setTimeout callbacks *)

TimerFires(t) ==
    /\ t \in timers
    /\ t.due <= now
    /\ timers' = timers \ {t}
    /\ activePlayers' = IF t.action = "activePlayers.delete"
                        THEN activePlayers \ {t.playerId} ELSE activePlayers
    /\ luckyTripleGames' = IF t.action = "luckyTripleGames.delete"
                           THEN luckyTripleGames \ {t.gameId} ELSE luckyTripleGames
    /\ playerGameSessions' = IF t.action = "playerGameSessions.delete"
                             THEN [playerGameSessions EXCEPT ![t.playerId] = NoGame]
                             ELSE playerGameSessions
    /\ gameStates' = Referenced(gameStates, luckyTripleGames', playerGameSessions',
                                rewardCalls)
    /\ response' = NoResponse
    /\ UNCHANGED <<requests, variant, now, nextGameId, completedGames, paidRewards, rewardCalls,
                   gatewayLog, nextCleanup>>

----------------------------------------------------------------------------
(* sendCardsReward after the 'pending' write: the awaits on the network *)

\* a settlement that sets rewardPaid to whether the call succeeded
SettledResettingPaid(call, status) ==
    /\ paidRewards' = MapSet(paidRewards, <<call.receiverAddress, call.gameId>>, status)
    /\ rewardCalls' = rewardCalls (-) SetToBag({call})
    /\ gameStates' = Referenced([gameStates EXCEPT
                                   ![call.gameId].rewardPaid = (status = "completed")],
                                luckyTripleGames, playerGameSessions, rewardCalls')

\* a settlement that writes the ledger on success only: a failure drops the call
\* and leaves the entry as it was
SettledOnSuccessOnly(call, status) ==
    /\ paidRewards' = IF status = "completed"
                      THEN MapSet(paidRewards, <<call.receiverAddress, call.gameId>>, status)
                      ELSE paidRewards
    /\ rewardCalls' = rewardCalls (-) SetToBag({call})
    /\ gameStates' = Referenced(IF status = "completed"
                                THEN [gameStates EXCEPT ![call.gameId].rewardPaid = TRUE]
                                ELSE gameStates,
                                luckyTripleGames, playerGameSessions, rewardCalls')

\* the call ends: the ledger entry gets its final status, and processReward's
\* continuation marks the session paid when the call returned a signature
Settled(call, status) ==
    /\ paidRewards' = MapSet(paidRewards, <<call.receiverAddress, call.gameId>>, status)
    /\ rewardCalls' = rewardCalls (-) SetToBag({call})
    /\ gameStates' = Referenced(IF status = "completed"
                                THEN [gameStates EXCEPT ![call.gameId].rewardPaid = TRUE]
                                ELSE gameStates,
                                luckyTripleGames, playerGameSessions, rewardCalls')

\* getAccountInfo or getRecentBlockhash throws, or the receiver has no token account
RewardPrepareFails(call) ==
    /\ BagIn(call, rewardCalls)
    /\ call.stage = "prepare"
    /\ Settled(call, "failed")
    /\ response' = NoResponse
    /\ UNCHANGED <<requests, variant, now, nextGameId, luckyTripleGames, playerGameSessions,
                   activePlayers, completedGames, gatewayLog, timers, nextCleanup>>

\* connection.sendRawTransaction: the transfer is submitted
RewardSend(call, accepted) ==
    /\ BagIn(call, rewardCalls)
    /\ call.stage = "prepare"
    /\ gatewayLog' = Append(gatewayLog,
                            <<call.receiverAddress, call.gameId, call.rewardAmount>>)
    /\ IF ~accepted THEN Settled(call, "failed")
       ELSE IF variant = "playerId" THEN Settled(call, "completed")
       ELSE /\ rewardCalls' = (rewardCalls (-) SetToBag({call}))
                                (+) SetToBag({[call EXCEPT !.stage = "confirm"]})
            /\ UNCHANGED <<paidRewards, gameStates>>
    /\ response' = NoResponse
    /\ UNCHANGED <<requests, variant, now, nextGameId, luckyTripleGames, playerGameSessions,
                   activePlayers, completedGames, timers, nextCleanup>>

\* gameId variant: connection.confirmTransaction
RewardConfirm(call, confirmed) ==
    /\ BagIn(call, rewardCalls)
    /\ call.stage = "confirm"
    /\ Settled(call, IF confirmed THEN "completed" ELSE "failed")
    /\ response' = NoResponse
    /\ UNCHANGED <<requests, variant, now, nextGameId, luckyTripleGames, playerGameSessions,
                   activePlayers, completedGames, gatewayLog, timers, nextCleanup>>

----------------------------------------------------------------------------
(* Time *)

\* the period of the variant's pass over the sessions
CleanupInterval ==
    IF variant = "gameId" THEN CLEANUP_INTERVAL_MS ELSE INACTIVE_CLEANUP_INTERVAL_MS

\* the first cleanup pass, from the next one on, at an instant >= t
PassFrom(t) ==
    IF nextCleanup >= t THEN nextCleanup
    ELSE nextCleanup + Ceil(t - nextCleanup, CleanupInterval) * CleanupInterval

\* the instants of the first cleanup passes that find something to do: in the
\* gameId variant an ended session (deleted by the next pass) or a session with
\* now - timestamp > GAME_TIMEOUT_MS, in the playerId variant a session with
\* lastActionTime < now - 1 hour
CleanupInstants ==
    IF variant = "gameId"
    THEN {IF gameStates[g].isEnded THEN nextCleanup
          ELSE PassFrom(gameStates[g].timestamp + GAME_TIMEOUT_MS + 1) :
            g \in luckyTripleGames}
    ELSE {PassFrom(gameStates[g].lastActionTime + INACTIVE_SESSION_MS + 1) :
            g \in Resident(luckyTripleGames, playerGameSessions)}

\* the instants at which something is due: a setTimeout callback, the deadline
\* of a resident session that has not ended and the instant half-way to it (a
\* client that takes its time), a cleanup pass that acts
DueInstants ==
    LET live == {g \in Resident(luckyTripleGames, playerGameSessions) :
                    ~gameStates[g].isEnded}
    IN  {t.due : t \in timers}
          \cup {gameStates[g].timestamp + GAME_TIMEOUT_MS : g \in live}
          \cup {gameStates[g].timestamp + (GAME_TIMEOUT_MS \div 2) : g \in live}
          \cup CleanupInstants

\* The clock moves on to the next instant at which something is due, once all
\* that is due now has run; the cleanup passes on the way that find nothing to
\* do are passed over. Requests arrive at any of these instants.
Tick ==
    /\ \A t \in timers : t.due > now
    /\ nextCleanup > now
    /\ LET later == {t \in DueInstants : t > now /\ t <= MaxNow}
       IN  /\ later # {}
           /\ LET due == CHOOSE t \in later : \A other \in later : t <= other
              IN  /\ now' = due
                  /\ nextCleanup' = PassFrom(due)
    /\ response' = NoResponse
    /\ UNCHANGED <<requests, variant, nextGameId, gameStates, luckyTripleGames,
                   playerGameSessions, activePlayers, completedGames, paidRewards,
                   rewardCalls, gatewayLog, timers>>

Seeds == 0..(NumSeeds - 1)

Next ==
    \/ \E p \in Players, fee \in EntryFeeInputs, seed \in Seeds : StartG(p, fee, seed)
    \/ \E g \in GameIds, cardIndexes \in CardIndexInputs : HoldG(g, cardIndexes)
    \/ \E g \in GameIds, seed \in Seeds : DrawG(g, seed)
    \/ \E g \in GameIds : CheckG(g)
    \/ \E g \in GameIds : StatusG(g)
    \/ \E p \in Players, fee \in EntryFeeInputs, seed \in Seeds : ResetG(p, fee, seed)
    \/ \E p \in Players, fee \in EntryFeeInputs, seed \in Seeds : StartP(p, fee, seed)
    \/ \E g \in GameIds, cardIndexes \in CardIndexInputs : HoldP(g, cardIndexes)
    \/ \E g \in GameIds : TimeP(g)
    \/ \E g \in GameIds, seed \in Seeds : DrawP(g, seed)
    \/ \E g \in GameIds : CheckP(g)
    \/ \E g \in GameIds : StatusP(g)
    \/ \E p \in Players, fee \in EntryFeeInputs, seed \in Seeds : ResetP(p, fee, seed)
    \/ cleanupTimedOutGames
    \/ cleanupInactiveGameSessions
    \/ \E t \in timers : TimerFires(t)
    \/ \E call \in BagToSet(rewardCalls) : RewardPrepareFails(call)
    \/ \E call \in BagToSet(rewardCalls), accepted \in BOOLEAN : RewardSend(call, accepted)
    \/ \E call \in BagToSet(rewardCalls), confirmed \in BOOLEAN : RewardConfirm(call, confirmed)
    \/ Tick

Spec == Init /\ [][Next]_vars

\* the server with a second player's game in the registry: the state after the
\* bystander's start request at the model's origin
TwoPlayerInit ==
    \E bystander \in Bystanders, seed \in Seeds :
        /\ variant \in {"gameId", "playerId"}
        /\ now = 0
        /\ nextGameId = 2
        /\ gameStates = MapSet(EmptyMap, 1,
                               NewGameState(1, bystander,
                                            createAndShuffleLuckyTripleDeck(seed), 0))
        /\ luckyTripleGames = IF variant = "gameId" THEN {1} ELSE {}
        /\ playerGameSessions =
              [p \in Players \cup Bystanders |->
                 IF variant = "playerId" /\ p = bystander THEN 1 ELSE NoGame]
        /\ activePlayers = IF variant = "gameId" THEN {bystander} ELSE {}
        /\ completedGames = EmptyMap
        /\ paidRewards = EmptyMap
        /\ rewardCalls = EmptyBag
        /\ gatewayLog = <<>>
        /\ timers = {}
        /\ nextCleanup = IF variant = "gameId" THEN CLEANUP_INTERVAL_MS
                         ELSE INACTIVE_CLEANUP_INTERVAL_MS
        /\ response = Answer("start", 1, 200, "", StartBody(1, bystander))
        /\ requests = 1

TwoPlayerSpec == TwoPlayerInit /\ [][Next]_vars

\* a step of a payout in flight: one of the awaits of sendCardsReward returns
\* or throws
GatewayStep ==
    \E call \in BagToSet(rewardCalls) :
        \/ RewardPrepareFails(call)
        \/ \E accepted \in BOOLEAN : RewardSend(call, accepted)
        \/ \E confirmed \in BOOLEAN : RewardConfirm(call, confirmed)

\* the server with a gateway whose calls terminate
FairSpec == Init /\ [][Next]_vars /\ WF_vars(GatewayStep)

\* the server whose event loop keeps running: time passes, setTimeout callbacks
\* run when due, the setInterval passes run at their instants; requests and
\* the gateway carry no obligation
LoopStep ==
    \/ Tick
    \/ \E t \in timers : TimerFires(t)
    \/ cleanupTimedOutGames
    \/ cleanupInactiveGameSessions

\* the state after a first start that was refused for an unpaid entry fee
LoopInit ==
    /\ variant \in {"gameId", "playerId"}
    /\ now = 0
    /\ nextGameId = 1
    /\ gameStates = EmptyMap
    /\ luckyTripleGames = {}
    /\ playerGameSessions = [p \in Players |-> NoGame]
    /\ activePlayers = {}
    /\ completedGames = EmptyMap
    /\ paidRewards = EmptyMap
    /\ rewardCalls = EmptyBag
    /\ gatewayLog = <<>>
    /\ timers = {}
    /\ nextCleanup = IF variant = "gameId" THEN CLEANUP_INTERVAL_MS
                     ELSE INACTIVE_CLEANUP_INTERVAL_MS
    /\ response = Answer("start", NoGame, 400,
                         "Entry fee of 3 CARDS must be paid before creating a game", NoBody)
    /\ requests = 1

LoopSpec == LoopInit /\ [][Next]_vars /\ WF_vars(LoopStep)

----------------------------------------------------------------------------
(* evaluateHandCombination on every hand *)

\* the cards of a sequence, as a set
CardSet(cards) == {cards[k] : k \in 1..Len(cards)}

\* the arrays evaluateHandCombination is given: every sequence of up to 3 of
\* the 24 cards (the same card may come again), and the sequences of 4 cards
\* of the first three
HandInputs ==
    UNION {[1..n -> CardSet(OrderedDeck)] : n \in 0..3}
      \cup [1..4 -> CardSet(SubSeq(OrderedDeck, 1, 3))]

Orderings(n) == {order \in [1..n -> 1..n] : \A i, j \in 1..n : order[i] = order[j] => i = j}

\* a session whose draw has just put a hand on the table and not yet evaluated it
HandInit ==
    \E hand \in HandInputs :
        /\ variant = "gameId"
        /\ now = 0
        /\ nextGameId = 2
        /\ gameStates = MapSet(EmptyMap, 1,
                               [NewGameState(1, "p1", <<>>, 0) EXCEPT !.cards = hand])
        /\ luckyTripleGames = {1}
        /\ playerGameSessions = [p \in Players |-> NoGame]
        /\ activePlayers = {"p1"}
        /\ completedGames = EmptyMap
        /\ paidRewards = EmptyMap
        /\ rewardCalls = EmptyBag
        /\ gatewayLog = <<>>
        /\ timers = {}
        /\ nextCleanup = CLEANUP_INTERVAL_MS
        /\ response = NoResponse
        /\ requests = 0

\* draw, from the evaluation on: the hand is evaluated, the result stored and
\* the round counted
EvaluateHand(gameId) ==
    /\ gameStates[gameId].roundsPlayed = 0
    /\ LET handResult == evaluateHandCombination(gameStates[gameId].cards)
       IN  gameStates' = [gameStates EXCEPT
                            ![gameId].currentCombination = handResult.combination,
                            ![gameId].currentReward = handResult.reward,
                            ![gameId].roundsPlayed = @ + 1]
    /\ UNCHANGED <<variant, now, nextGameId, luckyTripleGames, playerGameSessions,
                   activePlayers, completedGames, paidRewards, rewardCalls, gatewayLog,
                   timers, nextCleanup, response, requests>>

\* the same cards in another order, evaluated again
ReorderHand(gameId, order) ==
    /\ gameStates[gameId].roundsPlayed >= 1
    /\ LET cards == [k \in 1..Len(gameStates[gameId].cards) |->
                        gameStates[gameId].cards[order[k]]]
           handResult == evaluateHandCombination(cards)
       IN  gameStates' = [gameStates EXCEPT
                            ![gameId].cards = cards,
                            ![gameId].currentCombination = handResult.combination,
                            ![gameId].currentReward = handResult.reward]
    /\ UNCHANGED <<variant, now, nextGameId, luckyTripleGames, playerGameSessions,
                   activePlayers, completedGames, paidRewards, rewardCalls, gatewayLog,
                   timers, nextCleanup, response, requests>>

HandNext ==
    \/ \E g \in DOMAIN gameStates : EvaluateHand(g)
    \/ \E g \in DOMAIN gameStates :
          \E order \in Orderings(Len(gameStates[g].cards)) : ReorderHand(g, order)

HandSpec == HandInit /\ [][HandNext]_vars

----------------------------------------------------------------------------
(* createAndShuffleLuckyTripleDeck under many Math.random streams *)

DeckSeeds == 0..(NumDeckSeeds - 1)

\* the state after the first start, its deck shuffled under any of the streams
DeckInit ==
    \E seed \in DeckSeeds :
        /\ variant \in {"gameId", "playerId"}
        /\ now = 0
        /\ nextGameId = 2
        /\ gameStates = MapSet(EmptyMap, 1,
                               NewGameState(1, "p1", createAndShuffleLuckyTripleDeck(seed), 0))
        /\ luckyTripleGames = IF variant = "gameId" THEN {1} ELSE {}
        /\ playerGameSessions = [p \in Players |->
                                   IF variant = "playerId" /\ p = "p1" THEN 1 ELSE NoGame]
        /\ activePlayers = IF variant = "gameId" THEN {"p1"} ELSE {}
        /\ completedGames = EmptyMap
        /\ paidRewards = EmptyMap
        /\ rewardCalls = EmptyBag
        /\ gatewayLog = <<>>
        /\ timers = {}
        /\ nextCleanup = IF variant = "gameId" THEN CLEANUP_INTERVAL_MS
                         ELSE INACTIVE_CLEANUP_INTERVAL_MS
        /\ response = Answer("start", 1, 200, "", StartBody(1, "p1"))
        /\ requests = 1

\* the draws that follow
DeckNext ==
    \E g \in GameIds, seed \in Seeds :
        \/ DrawG(g, seed)
        \/ DrawP(g, seed)

DeckSpec == DeckInit /\ [][DeckNext]_vars

----------------------------------------------------------------------------
(* Properties *)

\* the ledger key of a session, and of a suspended reward call
TransactionKey(gameState) == <<gameState.playerId, gameState.gameId>>
CallKey(call) == <<call.receiverAddress, call.gameId>>

ResidentNow == Resident(luckyTripleGames, playerGameSessions)

\* this step is a handler answering a request of kind op for game g
Handled(ops, g) ==
    /\ requests' # requests
    /\ response'.op \in ops
    /\ response'.gameId = g

\* the session g has used up its time budget without having ended
Overdue(g) ==
    /\ ~gameStates[g].isEnded
    /\ now - gameStates[g].timestamp >= GAME_TIMEOUT_MS

\* the step leaves no trace in the ledger, the suspended calls or the gateway
NoDispatch ==
    /\ paidRewards' = paidRewards
    /\ rewardCalls' = rewardCalls
    /\ gatewayLog' = gatewayLog

C2_CheckThenPendingAtomic ==
    /\ [](/\ \A c \in BagToSet(rewardCalls) :
                /\ CopiesIn(c, rewardCalls) = 1
                /\ CallKey(c) \in DOMAIN paidRewards
                /\ paidRewards[CallKey(c)] = "pending"
                /\ \A d \in BagToSet(rewardCalls) : CallKey(d) = CallKey(c) => d = c
          /\ \A i \in 1..Len(gatewayLog) :
                <<gatewayLog[i][1], gatewayLog[i][2]>> \in DOMAIN paidRewards)
    /\ [][\A c \in BagToSet(rewardCalls') :
             (c.stage = "prepare" /\ ~BagIn(c, rewardCalls))
                => /\ CallKey(c) \notin DOMAIN paidRewards
                   /\ paidRewards'[CallKey(c)] = "pending"]_vars

\* a check has just succeeded on a game whose third draw won and whose payout
\* call, started by that draw, is still suspended
C2_Witness ==
    /\ response.op = "check"
    /\ response.status = 200
    /\ response.body.isWin
    /\ gameStates[response.gameId].roundsPlayed = MAX_ROUNDS
    /\ \E c \in BagToSet(rewardCalls) : c.gameId = response.gameId

\* C3: a session's rewardPaid flag is true only if the ledger entry of its
\* (playerId, gameId) is 'completed'.
C3_RewardPaidOnlyIfCompleted ==
    \A g \in DOMAIN gameStates :
        gameStates[g].rewardPaid
            => /\ TransactionKey(gameStates[g]) \in DOMAIN paidRewards
               /\ paidRewards[TransactionKey(gameStates[g])] = "completed"

\* C4: no reward dispatch happens for a game whose session has timedOut = true:
\* no step leaves a session timed out with a ledger entry it did not have before,
\* and a check or draw on a resident session that is already timed out is
\* refused, records nothing in completedGames and dispatches nothing.
C4_NoDispatchOnceTimedOut ==
    [][/\ \A g \in DOMAIN gameStates' :
             (/\ gameStates'[g].timedOut
              /\ TransactionKey(gameStates'[g]) \in DOMAIN paidRewards')
                => TransactionKey(gameStates'[g]) \in DOMAIN paidRewards
       /\ \A g \in ResidentNow :
             (gameStates[g].timedOut /\ Handled({"check", "draw"}, g))
                => /\ response'.status # 200
                   /\ completedGames' = completedGames
                   /\ NoDispatch]_vars

\* C5: each playerId owns at most one resident session that is not ended.
C5_OneLiveSessionPerPlayer ==
    \A p \in Players :
        Cardinality({g \in ResidentNow :
                        gameStates[g].playerId = p /\ ~gameStates[g].isEnded}) <= 1

\* C6: a draw or check on a session that has used up its 60 s without having
\* ended is rejected with the timed-out error and dispatches nothing; the
\* session, where it is still held, is ended and timed out with its hand, deck
\* and roundsPlayed as they were.
C6_LateDrawOrCheckRejected ==
    [][\A g \in ResidentNow :
          (Overdue(g) /\ Handled({"draw", "check"}, g))
             => /\ response'.status = 400
                /\ response'.error = "Game has timed out"
                /\ NoDispatch
                /\ g \in DOMAIN gameStates'
                      => /\ gameStates'[g].isEnded
                         /\ gameStates'[g].timedOut
                         /\ gameStates'[g].cards = gameStates[g].cards
                         /\ gameStates'[g].deck = gameStates[g].deck
                         /\ gameStates'[g].roundsPlayed = gameStates[g].roundsPlayed]_vars

\* C7: a hold on a session that has used up its 60 s without having ended is
\* rejected with the timed-out error, ends the session with timedOut = true and
\* leaves the held set as it was.
C7_LateHoldRejected ==
    [][\A g \in ResidentNow :
          (Overdue(g) /\ Handled({"hold"}, g))
             => /\ response'.status = 400
                /\ response'.error = "Game has timed out"
                /\ g \in DOMAIN gameStates'
                      => /\ gameStates'[g].isEnded
                         /\ gameStates'[g].timedOut
                         /\ gameStates'[g].heldCards = gameStates[g].heldCards]_vars

\* C8: in every session 0 <= roundsPlayed <= maxRounds = 3, and roundsPlayed =
\* maxRounds implies isEnded; a session becomes ended only in a step that leaves
\* roundsPlayed = maxRounds, that detects a timeout, or that is a check of it.
C8_RoundsAndEnding ==
    /\ [](\A g \in DOMAIN gameStates :
             /\ gameStates[g].maxRounds = MAX_ROUNDS
             /\ gameStates[g].roundsPlayed \in 0..gameStates[g].maxRounds
             /\ gameStates[g].roundsPlayed = gameStates[g].maxRounds
                   => gameStates[g].isEnded)
    /\ [][\A g \in DOMAIN gameStates' :
             (gameStates'[g].isEnded /\ (g \in DOMAIN gameStates => ~gameStates[g].isEnded))
                => \/ gameStates'[g].roundsPlayed = gameStates'[g].maxRounds
                   \/ gameStates'[g].timedOut
                   \/ Handled({"check"}, g)]_vars

\* a session has played its three rounds in time and is ended
C8_Witness ==
    \E g \in DOMAIN gameStates :
        /\ gameStates[g].roundsPlayed = MAX_ROUNDS
        /\ gameStates[g].isEnded
        /\ ~gameStates[g].timedOut

\* C9: draws of one game are serialised: a successful draw raises roundsPlayed by
\* exactly one and reports the rounds left after it, nothing else changes
\* roundsPlayed, so no two successful draws of a session report the same round.
C9_DrawsSerialised ==
    [][\A g \in DOMAIN gameStates' :
          IF g \in DOMAIN gameStates
          THEN IF Handled({"draw"}, g) /\ response'.status = 200
               THEN /\ gameStates'[g].roundsPlayed = gameStates[g].roundsPlayed + 1
                    /\ response'.body.roundsLeft =
                          gameStates[g].maxRounds - (gameStates[g].roundsPlayed + 1)
               ELSE gameStates'[g].roundsPlayed = gameStates[g].roundsPlayed
          ELSE gameStates'[g].roundsPlayed = 0]_vars

\* the second successful draw of a game has just been answered
C9_Witness ==
    /\ response.op = "draw"
    /\ response.status = 200
    /\ response.body.roundsLeft = 1
    /\ gameStates[response.gameId].roundsPlayed = 2

\* C10: a check on a session that is already ended and still resident changes
\* nothing: the session stays ended with rewardPaid as it was, the
\* completed-game record is not rewritten, and the ledger, the suspended calls
\* and the gateway are not touched.
C10_CheckOnEndedChangesNothing ==
    [][\A g \in ResidentNow :
          (gameStates[g].isEnded /\ Handled({"check"}, g))
             => /\ g \in DOMAIN gameStates'
                /\ gameStates'[g].isEnded
                /\ gameStates'[g].timedOut = gameStates[g].timedOut
                /\ gameStates'[g].rewardPaid = gameStates[g].rewardPaid
                /\ completedGames' = completedGames
                /\ NoDispatch]_vars

\* C11: the completed-game record of a game is written by the first terminal
\* transition and never overwritten: a record that exists stays, with the
\* result and processed fields of the first write.
C11_CompletedRecordWrittenOnce ==
    [][\A g \in DOMAIN completedGames :
          /\ g \in DOMAIN completedGames'
          /\ completedGames'[g].result = completedGames[g].result
          /\ completedGames'[g].processed = completedGames[g].processed]_vars

C13_LateStatusIsTimeoutSnapshot ==
    [][\A g \in ResidentNow :
          (Overdue(g) /\ Handled({"status"}, g))
             => /\ response'.status = 200
                /\ response'.body.isEnded
                /\ response'.body.timedOut
                /\ response'.body.currentReward = 0]_vars

\* C14: a session that ends (its completed-game record is first written: by the
\* final draw, a check, or a timeout found by a request or by the sweep) is
\* still resident, and ended, after the step that ends it, so the next status
\* or check finds it.
C14_EndedSessionStaysResident ==
    [][\A g \in ResidentNow :
          (/\ ~gameStates[g].isEnded
           /\ g \notin DOMAIN completedGames
           /\ g \in DOMAIN completedGames')
             => /\ g \in Resident(luckyTripleGames', playerGameSessions')
                /\ gameStates'[g].isEnded]_vars

\* the step is a request that changes nothing but the answer
OnlyAnswers ==
    UNCHANGED <<gameStates, luckyTripleGames, playerGameSessions, activePlayers,
                completedGames, paidRewards, rewardCalls, gatewayLog, timers>>

\* C15, with the error the specification names: a draw on a resident session
\* that has played its three rounds is rejected with 'Maximum rounds reached
\* for this game' and changes nothing.
C15_DrawAfterLastRoundMaxRounds ==
    [][\A g \in ResidentNow :
          (gameStates[g].roundsPlayed >= MAX_ROUNDS /\ Handled({"draw"}, g))
             => /\ gameStates[g].isEnded
                /\ response'.status = 400
                /\ response'.error = "Maximum rounds reached for this game"
                /\ OnlyAnswers]_vars

\* C15, with the error the handlers give: a session that has played its three
\* rounds is ended, and a draw on it while it is resident is rejected with
\* 'Game has already ended'
\* and changes nothing: hand, deck, roundsPlayed, combination, reward, held set
\* and flags stay as they were.
C15_DrawAfterLastRoundRejected ==
    [][\A g \in ResidentNow :
          (gameStates[g].roundsPlayed >= MAX_ROUNDS /\ Handled({"draw"}, g))
             => /\ gameStates[g].isEnded
                /\ response'.status = 400
                /\ response'.error = "Game has already ended"
                /\ OnlyAnswers]_vars

\* a fourth draw has just been rejected on a session that played three rounds
C15_Witness ==
    /\ response.op = "draw"
    /\ response.status = 400
    /\ response.gameId \in ResidentNow
    /\ gameStates[response.gameId].roundsPlayed = MAX_ROUNDS

\* C16: a hold succeeds only on a resident session that is not ended and has
\* 0 < roundsPlayed < maxRounds; a hold that is rejected leaves the held set as
\* it was.
C16_HoldOnlyInProgress ==
    [][\A g \in ResidentNow :
          Handled({"hold"}, g)
             => IF response'.status = 200
                THEN /\ ~gameStates[g].isEnded
                     /\ gameStates[g].roundsPlayed > 0
                     /\ gameStates[g].roundsPlayed < gameStates[g].maxRounds
                ELSE gameStates'[g].heldCards = gameStates[g].heldCards]_vars

\* C17: the held set of every session is a sequence of at most 2 distinct
\* positions taken from {0, 1, 2}.
C17_HeldSetWellFormed ==
    \A g \in DOMAIN gameStates :
        LET held == gameStates[g].heldCards
        IN  /\ Len(held) <= 2
            /\ \A i \in 1..Len(held) : held[i] \in {0, 1, 2}
            /\ \A i, j \in 1..Len(held) : held[i] = held[j] => i = j

\* C18: a status read, and the time read of the playerId variant, never starts
\* a reward call, never writes the ledger and never reaches the gateway,
\* whatever the state of the session it reads (or finds missing).
C18_ReadsNeverDispatch ==
    [][\A g \in GameIds : Handled({"status", "time"}, g) => NoDispatch]_vars

\* a status read has just reported an ended session with a winning hand for
\* which the ledger has no entry
C18_Witness ==
    /\ response.op = "status"
    /\ response.status = 200
    /\ response.body.isEnded
    /\ response.body.currentReward > 0
    /\ \A k \in DOMAIN paidRewards : k[2] # response.gameId

\* C19: a resident session past its deadline that no request touches is ended
\* as timed out by the periodic background pass: when a step that is not a
\* request takes such a session out of the registry, the session has a
\* 'timeout' completed-game record and, where it is still held, is ended with
\* timedOut = true.
C19_SweepTimesOutExpiredSessions ==
    [][\A g \in ResidentNow :
          (/\ Overdue(g)
           /\ requests' = requests
           /\ g \notin Resident(luckyTripleGames', playerGameSessions'))
             => /\ g \in DOMAIN completedGames'
                /\ completedGames'[g].result = "timeout"
                /\ g \in DOMAIN gameStates'
                      => gameStates'[g].isEnded /\ gameStates'[g].timedOut]_vars

\* C20: the timestamp of a session never changes after its creation; a timeout
\* is found only when now - timestamp has reached the 60 s budget; and a draw,
\* check, status or time read of a resident session that has not ended finds
\* the timeout as soon as now - timestamp has reached the budget, whatever the
\* session's last-action time.
C20_ExpiryFixedAtCreation ==
    [][/\ \A g \in (DOMAIN gameStates) \cap (DOMAIN gameStates') :
             gameStates'[g].timestamp = gameStates[g].timestamp
       /\ \A g \in DOMAIN gameStates :
             \/ now - gameStates[g].timestamp >= GAME_TIMEOUT_MS
             \/ /\ g \in DOMAIN gameStates'
                      => gameStates'[g].timedOut = gameStates[g].timedOut
                /\ g \in DOMAIN completedGames'
                      => \/ g \in DOMAIN completedGames
                         \/ completedGames'[g].result # "timeout"
       /\ \A g \in ResidentNow :
             (Overdue(g) /\ Handled({"draw", "check", "status", "time"}, g))
                => IF g \in DOMAIN gameStates'
                   THEN gameStates'[g].timedOut
                   ELSE /\ g \in DOMAIN completedGames'
                        /\ completedGames'[g].result = "timeout"]_vars

\* a session of the playerId variant that was active after its creation has
\* been timed out
C20_Witness ==
    \E g \in DOMAIN gameStates :
        /\ variant = "playerId"
        /\ gameStates[g].timedOut
        /\ gameStates[g].lastActionTime > gameStates[g].timestamp

\* C21: a successful reset for a player takes every resident session of that
\* player, ended or not, out of the registry and puts exactly one new session
\* of that player in, in the initial state (empty hand, roundsPlayed 0,
\* combination None with reward 0, not ended, not timed out, not paid, empty
\* held set, a deck of the 24 distinct cards); the sessions of other players
\* stay resident and unchanged.
C21_ResetReplacesOwnSessions ==
    [][\A g \in GameIds :
          (Handled({"reset"}, g) /\ response'.status = 200)
             => LET playerId == response'.body.playerId
                    others == {h \in ResidentNow : gameStates[h].playerId # playerId}
                IN  /\ g \notin DOMAIN gameStates
                    /\ Resident(luckyTripleGames', playerGameSessions') = others \cup {g}
                    /\ \A h \in others : gameStates'[h] = gameStates[h]
                    /\ gameStates'[g].playerId = playerId
                    /\ gameStates'[g].cards = <<>>
                    /\ gameStates'[g].heldCards = <<>>
                    /\ gameStates'[g].roundsPlayed = 0
                    /\ gameStates'[g].currentCombination = "None"
                    /\ gameStates'[g].currentReward = 0
                    /\ ~gameStates'[g].isEnded
                    /\ ~gameStates'[g].timedOut
                    /\ ~gameStates'[g].rewardPaid
                    /\ gameStates'[g].timestamp = now
                    /\ Len(gameStates'[g].deck) = 24
                    /\ CardSet(gameStates'[g].deck) = CardSet(OrderedDeck)]_vars

\* a reset has just replaced the game of the player who asked for it while the
\* bystander's game is resident
C21_Witness ==
    /\ response.op = "reset"
    /\ response.status = 200
    /\ response.gameId = 3
    /\ ResidentNow = {1, 3}
    /\ gameStates[1].playerId \in Bystanders

\* the decision table of the combinations: the condition of each label
SameRankHand(cards) == Cardinality({cards[k].rank : k \in 1..Len(cards)}) = 1
SameSuitHand(cards) == Cardinality({cards[k].suit : k \in 1..Len(cards)}) = 1
\* three consecutive ranks, the ace counting 1 only
ConsecutiveHand(cards) ==
    \E low \in 1..4 :
        {RANK_ORDER(cards[k].rank) : k \in 1..Len(cards)} = {low, low + 1, low + 2}

Labels == {"Lucky Triple", "Triple", "Straight Flush", "Straight", "Flush", "None"}

MeetsLabel(cards, label) ==
    CASE label = "Lucky Triple" -> SameRankHand(cards) /\ SameSuitHand(cards)
      [] label = "Triple" -> SameRankHand(cards)
      [] label = "Straight Flush" -> ConsecutiveHand(cards) /\ SameSuitHand(cards)
      [] label = "Straight" -> ConsecutiveHand(cards)
      [] label = "Flush" -> SameSuitHand(cards)
      [] label = "None" -> TRUE

TableReward(label) ==
    CASE label = "Lucky Triple" -> 15
      [] label = "Triple" -> 9
      [] label = "Straight Flush" -> 12
      [] label = "Straight" -> 6
      [] label = "Flush" -> 5
      [] label = "None" -> 0

\* first match in the order of the table
TableLabel(cards) ==
    IF MeetsLabel(cards, "Lucky Triple") THEN "Lucky Triple"
    ELSE IF MeetsLabel(cards, "Triple") THEN "Triple"
    ELSE IF MeetsLabel(cards, "Straight Flush") THEN "Straight Flush"
    ELSE IF MeetsLabel(cards, "Straight") THEN "Straight"
    ELSE IF MeetsLabel(cards, "Flush") THEN "Flush"
    ELSE "None"

\* C22: for every hand of 3 cards the evaluation returns the label of the
\* decision table (first match among Lucky Triple, Triple, Straight Flush,
\* Straight, Flush, None) with the rewards 15, 9, 12, 6, 5, 0, and that label is
\* the one of highest reward among the labels whose condition the hand meets;
\* an array that is not of 3 cards gives None with reward 0.
C22_EvaluationMatchesTable ==
    \A g \in DOMAIN gameStates :
        gameStates[g].roundsPlayed >= 1
            => LET cards == gameStates[g].cards
                   label == gameStates[g].currentCombination
                   reward == gameStates[g].currentReward
               IN  IF Len(cards) = 3
                   THEN /\ label = TableLabel(cards)
                        /\ reward = TableReward(label)
                        /\ \A other \in Labels :
                              MeetsLabel(cards, other) => TableReward(other) <= reward
                   ELSE label = "None" /\ reward = 0

\* an evaluated hand of one suit whose ranks are consecutive and not in order
C22_Witness ==
    \E g \in DOMAIN gameStates :
        /\ gameStates[g].roundsPlayed >= 1
        /\ Len(gameStates[g].cards) = 3
        /\ SameSuitHand(gameStates[g].cards)
        /\ ConsecutiveHand(gameStates[g].cards)
        /\ RANK_ORDER(gameStates[g].cards[1].rank) > RANK_ORDER(gameStates[g].cards[2].rank)
        /\ gameStates[g].currentCombination = "Straight Flush"

\* C23: the evaluation of a hand does not depend on the order of its cards: the
\* hand presented in any other of its orderings gets the same combination and
\* the same reward.
C23_EvaluationOrderIndependent ==
    [][\A g \in DOMAIN gameStates :
          gameStates[g].roundsPlayed >= 1
             => /\ gameStates'[g].currentCombination = gameStates[g].currentCombination
                /\ gameStates'[g].currentReward = gameStates[g].currentReward]_vars

\* an evaluated straight of mixed suits whose cards lie highest rank first
C23_Witness ==
    \E g \in DOMAIN gameStates :
        /\ gameStates[g].roundsPlayed >= 1
        /\ Len(gameStates[g].cards) = 3
        /\ gameStates[g].currentCombination = "Straight"
        /\ RANK_ORDER(gameStates[g].cards[1].rank) > RANK_ORDER(gameStates[g].cards[2].rank)
        /\ RANK_ORDER(gameStates[g].cards[2].rank) > RANK_ORDER(gameStates[g].cards[3].rank)

\* C24: the deck of a new session is a permutation of exactly the 24 distinct
\* cards, and the first draw removes exactly 3 cards from it, the 3 of the
\* hand, leaving 21.
C24_DeckIsPermutationFirstDrawTakesThree ==
    /\ [](\A g \in DOMAIN gameStates :
            gameStates[g].roundsPlayed = 0
               => /\ Len(gameStates[g].deck) = 24
                  /\ CardSet(gameStates[g].deck) = CardSet(OrderedDeck)
                  /\ Cardinality(CardSet(gameStates[g].deck)) = 24)
    /\ [][\A g \in DOMAIN gameStates :
            (g \in DOMAIN gameStates' /\ gameStates[g].roundsPlayed = 0
               /\ gameStates'[g].roundsPlayed = 1)
               => /\ Len(gameStates'[g].deck) = 21
                  /\ Cardinality(CardSet(gameStates'[g].deck)) = 21
                  /\ CardSet(gameStates'[g].deck) \subseteq CardSet(gameStates[g].deck)
                  /\ CardSet(gameStates[g].deck) \ CardSet(gameStates'[g].deck)
                       = CardSet(gameStates'[g].cards)
                  /\ Cardinality(CardSet(gameStates'[g].cards)) = 3]_vars

\* a first draw has been answered from a deck that was not left in creation order
C24_Witness ==
    /\ response.op = "draw"
    /\ response.status = 200
    /\ response.gameId \in DOMAIN gameStates
    /\ gameStates[response.gameId].roundsPlayed = 1
    /\ Len(gameStates[response.gameId].deck) = 21
    /\ gameStates[response.gameId].deck # SubSeq(OrderedDeck, 1, 21)

\* C25: in the playerId variant a session that has not ended and is within its
\* time budget stays resident over every step other than its player's next
\* successful start or reset; in particular the firing of a removal timer left
\* by the player's previous game does not delete it.
C25_StaleTimerSparesNewerSession ==
    [][variant = "playerId"
         => \A g \in ResidentNow :
               (/\ ~gameStates[g].isEnded
                /\ now - gameStates[g].timestamp < GAME_TIMEOUT_MS
                /\ ~(/\ requests' # requests
                     /\ response'.op \in {"start", "reset"}
                     /\ response'.status = 200))
                  => g \in Resident(luckyTripleGames', playerGameSessions')]_vars

\* C26: in the gameId variant a player whose game has ended gets removed from
\* activePlayers, so that a later start is accepted: every player in
\* activePlayers either has a resident session that has not ended (which a
\* draw, a check or the sweep will end) or has a removal from activePlayers
\* pending.
C26_ActivePlayerLeavesAfterEnd ==
    variant = "gameId"
       => \A p \in activePlayers :
             \/ \E g \in luckyTripleGames :
                   gameStates[g].playerId = p /\ ~gameStates[g].isEnded
             \/ \E t \in timers : t.action = "activePlayers.delete" /\ t.playerId = p

\* C27: when a draw brings roundsPlayed to maxRounds, or a check ends a session
\* in play, the session becomes ended, a completed-game record is written with
\* result 'win' if currentReward > 0 and 'loss' if currentReward = 0, and the
\* reward dispatch is invoked if and only if currentReward > 0.
C27_EndingRecordsOutcomeAndDispatchesWins ==
    [][\A g \in ResidentNow :
          (/\ Handled({"draw", "check"}, g)
           /\ response'.status = 200
           /\ ~gameStates[g].isEnded
           /\ \/ response'.op = "check"
              \/ gameStates[g].roundsPlayed + 1 = gameStates[g].maxRounds)
             => /\ g \in DOMAIN gameStates'
                /\ gameStates'[g].isEnded
                /\ g \in DOMAIN completedGames'
                /\ completedGames'[g].result
                     = IF gameStates'[g].currentReward > 0 THEN "win" ELSE "loss"
                /\ IF gameStates'[g].currentReward > 0
                   THEN /\ TransactionKey(gameStates'[g]) \notin DOMAIN paidRewards
                        /\ TransactionKey(gameStates'[g]) \in DOMAIN paidRewards'
                        /\ \E call \in BagToSet(rewardCalls') :
                              /\ CallKey(call) = TransactionKey(gameStates'[g])
                              /\ CopiesIn(call, rewardCalls') > CopiesIn(call, rewardCalls)
                   ELSE NoDispatch]_vars

\* the final draw of a session has left a winning hand
C27_Witness ==
    /\ response.status = 200
    /\ response.gameId \in DOMAIN gameStates
    /\ response.gameId \in DOMAIN completedGames
    /\ gameStates[response.gameId].isEnded
    /\ gameStates[response.gameId].roundsPlayed = gameStates[response.gameId].maxRounds
    /\ gameStates[response.gameId].currentReward > 0
    /\ completedGames[response.gameId].result = "win"
    /\ response.op = "draw"

\* the positions of the hand that a draw keeps: none at round 0, afterwards the
\* positions 0..2 that occur in the held set
KeptPositions(gameState) ==
    IF gameState.roundsPlayed = 0 THEN {}
    ELSE {i \in 0..2 : Includes(gameState.heldCards, i)}

\* the cards a deal has put at the positions that were not kept
FreshCards(before, after) ==
    {after.cards[i + 1] : i \in (0..2) \ KeptPositions(before)}

\* a step in which a draw on session g was answered with a new hand
DealStep(g) ==
    /\ Handled({"draw"}, g)
    /\ response'.status = 200
    /\ g \in DOMAIN gameStates
    /\ g \in DOMAIN gameStates'
    /\ gameStates'[g].roundsPlayed = gameStates[g].roundsPlayed + 1

\* C28: a successful draw at round 0 fills the 3 positions with cards removed
\* from the deck; at a later round it keeps the previous card at every held
\* position and fills the other positions with cards removed from the deck; the
\* deck loses exactly 3 minus the number of held positions, from its top.
C28_DrawKeepsHeldAndFillsRest ==
    [][\A g \in ResidentNow :
          DealStep(g)
             => LET before == gameStates[g]
                    after == gameStates'[g]
                    kept == KeptPositions(before)
                    taken == 3 - Cardinality(kept)
                IN  /\ Len(after.cards) = 3
                    /\ before.roundsPlayed = 0 => kept = {}
                    /\ \A i \in kept : after.cards[i + 1] = before.cards[i + 1]
                    /\ Len(after.deck) = Len(before.deck) - taken
                    /\ after.deck = SubSeq(before.deck, 1, Len(before.deck) - taken)
                    /\ FreshCards(before, after)
                         = CardSet(before.deck) \ CardSet(after.deck)
                    /\ Cardinality(FreshCards(before, after)) = taken]_vars

\* a second-round draw with positions 0 and 1 held has been answered: 3 + 1
\* cards have left the deck
C28_Witness ==
    /\ response.op = "draw"
    /\ response.status = 200
    /\ response.body.previouslyHeld = <<0, 1>>
    /\ response.gameId \in DOMAIN gameStates
    /\ gameStates[response.gameId].roundsPlayed = 2
    /\ Len(gameStates[response.gameId].deck) = 20

\* C29: within a session no card is dealt twice: the deck holds distinct cards
\* and only loses cards, the hand holds distinct cards none of which is in the
\* deck, and every card a draw puts on the table comes from the deck, that is,
\* is none of the cards dealt before in the session.
C29_NoCardDealtTwice ==
    /\ [](\A g \in DOMAIN gameStates :
            /\ Cardinality(CardSet(gameStates[g].deck)) = Len(gameStates[g].deck)
            /\ Cardinality(CardSet(gameStates[g].cards)) = Len(gameStates[g].cards)
            /\ CardSet(gameStates[g].cards) \cap CardSet(gameStates[g].deck) = {}
            /\ CardSet(gameStates[g].cards) \cup CardSet(gameStates[g].deck)
                 \subseteq CardSet(OrderedDeck))
    /\ [][\A g \in DOMAIN gameStates :
            g \in DOMAIN gameStates'
               => /\ CardSet(gameStates'[g].deck) \subseteq CardSet(gameStates[g].deck)
                  /\ DealStep(g)
                       => FreshCards(gameStates[g], gameStates'[g])
                            \cap (CardSet(OrderedDeck) \ CardSet(gameStates[g].deck)) = {}]_vars

\* a third hand is on the table, dealt with one position held: 7 cards have
\* left the deck in three deals
C29_Witness ==
    \E g \in DOMAIN gameStates :
        /\ gameStates[g].roundsPlayed = 3
        /\ Len(gameStates[g].cards) = 3
        /\ Len(gameStates[g].deck) < 24 - 6
        /\ Len(gameStates[g].deck) > 24 - 9

\* C30: in every state the combination and the reward of a session are those
\* of evaluateHandCombination on its hand ('None' and 0 while the hand is
\* empty), and the combination and reward of every successful draw response
\* are those of the hand in that response.
C30_CombinationMatchesHand ==
    /\ \A g \in DOMAIN gameStates :
          /\ gameStates[g].currentCombination
               = evaluateHandCombination(gameStates[g].cards).combination
          /\ gameStates[g].currentReward
               = evaluateHandCombination(gameStates[g].cards).reward
          /\ gameStates[g].cards = <<>>
               => gameStates[g].currentCombination = "None"
                    /\ gameStates[g].currentReward = 0
    /\ (response.op = "draw" /\ response.status = 200 /\ "cards" \in DOMAIN response.body)
          => /\ response.body.combination
                  = evaluateHandCombination(response.body.cards).combination
             /\ response.body.reward
                  = evaluateHandCombination(response.body.cards).reward

\* a draw has been answered with a hand that carries a reward
C30_Witness ==
    /\ response.op = "draw"
    /\ response.status = 200
    /\ "cards" \in DOMAIN response.body
    /\ Len(response.body.cards) = 3
    /\ response.body.reward > 0
    /\ response.body.combination # "None"

\* C31: every successful draw leaves the held set empty; a successful hold
\* stores exactly the positions it was given in place of the stored ones; the
\* held set changes in no other step; hence the positions a draw keeps (those
\* of 0..2 in the stored held set, reported as previouslyHeld) are those of the
\* last successful hold since the previous draw, and none at the first draw.
C31_HeldSetReplacedByHoldClearedByDraw ==
    /\ [](\A g \in DOMAIN gameStates :
            gameStates[g].roundsPlayed = 0 => gameStates[g].heldCards = <<>>)
    /\ [][\A g \in DOMAIN gameStates :
            g \in DOMAIN gameStates'
               => /\ DealStep(g)
                       => /\ gameStates'[g].heldCards = <<>>
                          /\ response'.body.previouslyHeld = gameStates[g].heldCards
                          /\ \A i \in 0..2 :
                                Includes(gameStates[g].heldCards, i)
                                   => gameStates'[g].cards[i + 1] = gameStates[g].cards[i + 1]
                  /\ (Handled({"hold"}, g) /\ response'.status = 200)
                       => gameStates'[g].heldCards = response'.body.heldCards
                  /\ gameStates'[g].heldCards # gameStates[g].heldCards
                       => \/ DealStep(g)
                          \/ Handled({"hold"}, g) /\ response'.status = 200]_vars

\* the third draw has been answered after a hold of positions 0 and 1, and the
\* held set is empty again
C31_Witness ==
    /\ response.op = "draw"
    /\ response.status = 200
    /\ response.body.previouslyHeld = <<0, 1>>
    /\ response.gameId \in DOMAIN gameStates
    /\ gameStates[response.gameId].roundsPlayed = 3
    /\ gameStates[response.gameId].heldCards = <<>>

\* C32: once a session is ended its hand, deck, combination, reward, round
\* counter and held set are frozen: no later step changes any of them while
\* the session exists.
C32_EndedSessionFrozen ==
    [][\A g \in DOMAIN gameStates :
          (gameStates[g].isEnded /\ g \in DOMAIN gameStates')
             => /\ gameStates'[g].cards = gameStates[g].cards
                /\ gameStates'[g].deck = gameStates[g].deck
                /\ gameStates'[g].currentCombination = gameStates[g].currentCombination
                /\ gameStates'[g].currentReward = gameStates[g].currentReward
                /\ gameStates'[g].roundsPlayed = gameStates[g].roundsPlayed
                /\ gameStates'[g].heldCards = gameStates[g].heldCards]_vars

\* the rewards of the combinations that pay
TierValues == {TableReward(label) : label \in Labels \ {"None"}}

\* C33: every payout asked of the gateway, and every payout submitted, is for
\* an ended session and carries that session's currentReward, a strictly
\* positive tier value (5, 6, 9, 12 or 15); a ledger entry is only ever created
\* for a session whose currentReward is positive.
C33_PayoutAmountIsRewardOfEndedHand ==
    /\ [](/\ \A call \in BagToSet(rewardCalls) :
               /\ call.rewardAmount \in TierValues
               /\ call.rewardAmount > 0
               /\ call.gameId \in DOMAIN gameStates
               /\ gameStates[call.gameId].isEnded
               /\ gameStates[call.gameId].currentReward = call.rewardAmount
               /\ gameStates[call.gameId].playerId = call.receiverAddress
          /\ \A k \in 1..Len(gatewayLog) :
               gatewayLog[k][3] \in TierValues /\ gatewayLog[k][3] > 0)
    /\ [][/\ Len(gatewayLog') > Len(gatewayLog)
               => LET sent == gatewayLog'[Len(gatewayLog')]
                  IN  /\ sent[2] \in DOMAIN gameStates
                      /\ gameStates[sent[2]].isEnded
                      /\ sent[3] = gameStates[sent[2]].currentReward
                      /\ sent[1] = gameStates[sent[2]].playerId
          /\ \A key \in DOMAIN paidRewards' \ DOMAIN paidRewards :
                /\ key[2] \in DOMAIN gameStates'
                /\ gameStates'[key[2]].isEnded
                /\ gameStates'[key[2]].currentReward > 0
                /\ gameStates'[key[2]].playerId = key[1]]_vars

\* a payout has been submitted and its ledger entry is 'completed'
C33_Witness ==
    /\ Len(gatewayLog) = 1
    /\ gatewayLog[1][3] \in {5, 6, 9, 12}
    /\ <<gatewayLog[1][1], gatewayLog[1][2]>> \in DOMAIN paidRewards
    /\ paidRewards[<<gatewayLog[1][1], gatewayLog[1][2]>>] = "completed"

\* C34: every ledger entry written as 'pending' has its gateway call in flight
\* and leaves 'pending' only for 'completed' or 'failed'; with a gateway whose
\* calls terminate, every 'pending' entry eventually is 'completed' or
\* 'failed'.
C34_PendingEventuallySettled ==
    /\ [](\A key \in DOMAIN paidRewards :
            paidRewards[key] = "pending"
               => \E call \in BagToSet(rewardCalls) : CallKey(call) = key)
    /\ [][\A key \in DOMAIN paidRewards :
            paidRewards[key] = "pending"
               => /\ key \in DOMAIN paidRewards'
                  /\ paidRewards'[key] \in {"pending", "completed", "failed"}]_vars
    /\ \A p \in Players, g \in GameIds :
          (<<p, g>> \in DOMAIN paidRewards /\ paidRewards[<<p, g>>] = "pending")
             ~> (<<p, g>> \in DOMAIN paidRewards
                   /\ paidRewards[<<p, g>>] \in {"completed", "failed"})

\* a payout was submitted, the gateway refused it, and the entry is 'failed'
C34_Witness ==
    /\ Len(gatewayLog) = 1
    /\ <<gatewayLog[1][1], gatewayLog[1][2]>> \in DOMAIN paidRewards
    /\ paidRewards[<<gatewayLog[1][1], gatewayLog[1][2]>>] = "failed"
    /\ rewardCalls = EmptyBag

\* the instant of the cleanup pass that removes resident session g at the
\* latest if no request refreshes it (the passes run at the multiples of the
\* interval): in the gameId variant the first pass after the time budget, in
\* the playerId variant the first pass later than one hour after the last
\* action
RemovalPass(g) ==
    IF variant = "gameId"
    THEN Ceil(gameStates[g].timestamp + GAME_TIMEOUT_MS + 1, CLEANUP_INTERVAL_MS)
           * CLEANUP_INTERVAL_MS
    ELSE Ceil(gameStates[g].lastActionTime + INACTIVE_SESSION_MS + 1,
              INACTIVE_CLEANUP_INTERVAL_MS) * INACTIVE_CLEANUP_INTERVAL_MS

\* C35: every resident session, ended or abandoned, is eventually removed from
\* the registry by the timers and the background passes alone, in both
\* variants (for every session whose removing pass lies within the modelled
\* time, and unless a request refreshes the session beyond it).
C35_EverySessionEventuallyRemoved ==
    \A g \in GameIds :
        (g \in ResidentNow /\ RemovalPass(g) <= MaxNow)
           ~> (g \notin ResidentNow \/ RemovalPass(g) > MaxNow)

\* the abandoned session of the playerId variant is gone after the pass at 90
\* minutes, and no request was made after its start
C35_Witness ==
    /\ variant = "playerId"
    /\ requests = 2
    /\ nextGameId = 2
    /\ ResidentNow = {}
    /\ now >= INACTIVE_SESSION_MS + INACTIVE_CLEANUP_INTERVAL_MS
    /\ completedGames = EmptyMap

\* C36: in every state a hand on the table holds three pairwise distinct
\* cards, so no session's combination is 'Lucky Triple', no session's reward
\* exceeds 12, and no payout of 15 is asked of the gateway or submitted.
C36_NoLuckyTriple ==
    /\ \A g \in DOMAIN gameStates :
          /\ \/ gameStates[g].cards = <<>>
             \/ /\ Len(gameStates[g].cards) = 3
                /\ Cardinality(CardSet(gameStates[g].cards)) = 3
          /\ gameStates[g].currentCombination # "Lucky Triple"
          /\ gameStates[g].currentReward <= 12
    /\ \A call \in BagToSet(rewardCalls) : call.rewardAmount <= 12
    /\ \A k \in 1..Len(gatewayLog) : gatewayLog[k][3] <= 12

\* the highest payout that occurs, 12 for a Straight Flush, has been submitted
C36_Witness ==
    /\ Len(gatewayLog) >= 1
    /\ gatewayLog[1][3] = 12
    /\ \E g \in DOMAIN gameStates :
          /\ gameStates[g].currentCombination = "Straight Flush"
          /\ gameStates[g].currentReward = 12
          /\ gameStates[g].isEnded

\* C37: the 'maximum rounds reached' rejection of draw is never given: in
\* every state a session with roundsPlayed >= maxRounds is ended, and a draw on
\* such a session is rejected by the test for an ended game, which comes first.
C37_MaxRoundsBranchUnreachable ==
    /\ [](/\ \A g \in DOMAIN gameStates :
               gameStates[g].roundsPlayed >= gameStates[g].maxRounds
                  => gameStates[g].isEnded
          /\ response.error # "Maximum rounds reached for this game")
    /\ [][\A g \in ResidentNow :
            (Handled({"draw"}, g)
               /\ gameStates[g].roundsPlayed >= gameStates[g].maxRounds)
               => /\ response'.status = 400
                  /\ response'.error = "Game has already ended"]_vars

\* a draw on a session that has played its three rounds has been refused
\* because the game has ended, the session still being resident
C37_Witness ==
    /\ response.op = "draw"
    /\ response.status = 400
    /\ response.error = "Game has already ended"
    /\ response.gameId \in ResidentNow
    /\ gameStates[response.gameId].roundsPlayed = gameStates[response.gameId].maxRounds
    /\ gameStates[response.gameId].isEnded
    /\ ~gameStates[response.gameId].timedOut

\* C38: for a given game the flags isEnded, timedOut and rewardPaid are
\* monotone: no step sets one of them back from true to false.
C38_FlagsMonotone ==
    [][\A g \in DOMAIN gameStates :
          g \in DOMAIN gameStates'
             => /\ gameStates[g].isEnded => gameStates'[g].isEnded
                /\ gameStates[g].timedOut => gameStates'[g].timedOut
                /\ gameStates[g].rewardPaid => gameStates'[g].rewardPaid]_vars

\* a session with all three flags set: timed out, then checked and paid
C38_Witness ==
    \E g \in DOMAIN gameStates :
        /\ gameStates[g].isEnded
        /\ gameStates[g].timedOut
        /\ gameStates[g].rewardPaid

\* C39: a hold request, accepted or rejected, changes nothing but the held set
\* of its session (and, in the playerId variant, the session's last-action
\* time): every other field of every session, the registries, the ledger, the
\* completed-game records, the payouts and the timers are unchanged; a
\* rejected hold leaves the held set unchanged as well.
C39_HoldChangesOnlyHeldSet ==
    [][(requests' # requests /\ response'.op = "hold")
          => /\ UNCHANGED <<luckyTripleGames, playerGameSessions, activePlayers,
                            completedGames, paidRewards, rewardCalls, gatewayLog,
                            timers, nextGameId>>
             /\ DOMAIN gameStates' = DOMAIN gameStates
             /\ \A g \in DOMAIN gameStates :
                   IF g = response'.gameId /\ response'.status = 200
                   THEN gameStates'[g]
                          = [gameStates[g] EXCEPT
                               !.heldCards = response'.body.heldCards,
                               !.lastActionTime = IF variant = "playerId" THEN now ELSE @]
                   ELSE gameStates'[g] = gameStates[g]]_vars

\* a hold on a session holding a winning hand has been refused for naming
\* three positions
C39_Witness ==
    /\ response.op = "hold"
    /\ response.status = 400
    /\ response.error = "Cannot hold more than 2 cards"
    /\ response.gameId \in ResidentNow
    /\ gameStates[response.gameId].currentReward > 0
    /\ gameStates[response.gameId].heldCards = <<0, 1>>

\* C40: the reshuffle branch of draw is never taken. Every session's deck has
\* at least 15 cards, 24 before its first deal and at least 24 - 3 * roundsPlayed
\* afterwards, all different; every deal starts from a deck of at least 3 cards
\* and leaves that deck less the cards it dealt from its top, so the size of
\* the deck is always 24 minus the number of cards dealt in the session.
C40_ReshuffleNeverTaken ==
    /\ [](\A g \in DOMAIN gameStates :
             LET gameState == gameStates[g]
             IN  /\ Len(gameState.deck) >= 15
                 /\ Len(gameState.deck) >= 24 - 3 * gameState.roundsPlayed
                 /\ gameState.roundsPlayed = 0 => Len(gameState.deck) = 24
                 /\ gameState.roundsPlayed > 0 => Len(gameState.deck) <= 21
                 /\ Cardinality(CardSet(gameState.deck)) = Len(gameState.deck))
    /\ [][\A g \in ResidentNow :
             DealStep(g)
                => LET before == gameStates[g]
                       after == gameStates'[g]
                       dealt == 3 - Cardinality(KeptPositions(before))
                   IN  /\ Len(before.deck) >= 3
                       /\ after.deck = SubSeq(before.deck, 1, Len(before.deck) - dealt)]_vars

\* a session has gone through its three rounds with nothing held: 9 cards
\* dealt, 15 left
C40_Witness ==
    \E g \in ResidentNow :
        /\ gameStates[g].roundsPlayed = 3
        /\ Len(gameStates[g].deck) = 15

====
